---- MODULE Spec2Model ----
(***************************************************************************)
(* Verification model of the MorningBrief article pipeline and serving     *)
(* core: StorageProcessor, SummarizationProcessor, SelectionProcessor,     *)
(* PipelineService and SmartServingService.                                *)
(*                                                                         *)
(* Conventions.  Python None is the string "None"; the empty string is "". *)
(* A NewsArticle row is a record with the attributes the code reads and    *)
(* writes (storage.py:65-83).  Time is counted in whole hours.             *)
(***************************************************************************)
EXTENDS Integers, Sequences, FiniteSets, TLC

(***************************************************************************)
(* Bounds of the model.                                                    *)
(***************************************************************************)
MaxBatch == 2      \* longest input_data list handed to StorageProcessor.process
MaxCalls == 3      \* number of StorageProcessor.process calls in one behaviour
MaxTime  == 8      \* the clock stops ticking here, in hours
HoursPerTick == 4  \* hours between two readings of the clock
MaxInput == 3      \* longest input_data list handed to SummarizationProcessor.process
MaxConcurrent == 2 \* the max_concurrent the SummarizationProcessor is built with
TopCount == 1      \* the top_count the SelectionProcessor is built with
MaxRaw == 2        \* longest list fetch_news_for_category returns
MaxAnswer == 2     \* longest array of numbers the LLM answers with
MaxMinArticles == 2 \* largest min_articles_per_category of a request

None == "None"

URLS == {"u1", "u2"}
Runs == {"A", "B"}

\* Python truthiness of an Optional[str]
Truthy(x) == x \notin {None, ""}

\* Python `a or b`
PyOr(a, b) == IF Truthy(a) THEN a ELSE b

(***************************************************************************)
(* ProcessedArticle values handed to the storage stage.                    *)
(***************************************************************************)
ProcessedArticles ==
    { [url |-> "u1", category |-> "technology", title |-> "t1",
       description |-> "d1", ai_summary |-> "s1"],
      [url |-> "u1", category |-> "sports", title |-> "t2",
       description |-> "d2", ai_summary |-> None],
      [url |-> "u2", category |-> "sports", title |-> "t1",
       description |-> None, ai_summary |-> None] }

RECURSIVE SeqsUpTo(_, _)
SeqsUpTo(S, n) ==
    IF n = 0 THEN { <<>> }
    ELSE LET shorter == SeqsUpTo(S, n - 1)
         IN  shorter \cup { Append(s, x) : s \in { t \in shorter : Len(t) = n - 1 }, x \in S }

VARIABLES
    db,        \* committed rows of table news_articles
    nextId,    \* next value of the autoincrement primary key
    now,       \* datetime.utcnow(), in hours
    calls,     \* number of StorageProcessor.process calls made so far
    enabled,   \* per run: Processor.enabled of the three processors of its service
    st,        \* per run: the StorageProcessor.process call and its session
    sm,        \* per run: the SummarizationProcessor and its process call
    sel,       \* per run: the SelectionProcessor and its select_articles_for_categories call
    pl,        \* per run: the PipelineService.process_categories call
    sv,        \* per run: the SmartServingService.get_fresh_articles call
    br,        \* per run: the generate_briefing request of the route
    fn         \* the call of a pure function: its inputs and its results

storageVars == <<db, nextId, now, calls, st>>

vars == <<storageVars, enabled, sm, sel, pl, sv, br, fn>>

\* st[r].todo is the number of elements of input_data the loop has not read
\* yet; the elements themselves are supplied to each iteration when it reads
\* them.  saved_articles holds the urls of the rows appended to the list.
IdleCall == [pc |-> "idle", todo |-> 0,
             added |-> <<>>, updated |-> <<>>, saved_articles |-> <<>>,
             raised |-> FALSE, error |-> "none"]

\* rows of a table with a given url
RowsOf(table, u) == { row \in table : row.url = u }

\* index of the first pending (session.add-ed, autoflushed) row with url u, or 0
RECURSIVE FirstIdx(_, _, _)
FirstIdx(rows, u, i) ==
    IF i > Len(rows) THEN 0
    ELSE IF rows[i].url = u THEN i ELSE FirstIdx(rows, u, i + 1)

\* autoflush: the SELECT of an upsert sees the rows this session added earlier
Autoflush(added) == added

\* result of `select(NewsArticle).where(url == u)` inside session s
\* (storage.py:59-61): "new" i = a row this session added; "loaded" i = a row
\* this session already holds modified; "db" = a committed row; "absent";
\* "error" = the statement raises (the autoflushed INSERT collides with a
\* row committed meanwhile, or scalar_one_or_none finds several rows)
Lookup(s, table, u) ==
    LET visible == Autoflush(s.added)
        n == FirstIdx(visible, u, 1)
        m == FirstIdx(s.updated, u, 1)
        committed == RowsOf(table, u)
    IN  IF n > 0 /\ committed # {} THEN [kind |-> "error", i |-> 0]
        ELSE IF Cardinality(committed) > 1 THEN [kind |-> "error", i |-> 0]
        ELSE IF n > 0 THEN [kind |-> "new", i |-> n]
        ELSE IF m > 0 THEN [kind |-> "loaded", i |-> m]
        ELSE IF committed # {} THEN [kind |-> "db", i |-> 0]
        ELSE [kind |-> "absent", i |-> 0]

\* storage.py:65-69, the attributes an update assigns
UpdateExisting(row, a, t) ==
    [row EXCEPT !.summary = PyOr(a.ai_summary, a.description),
                !.ai_summary = a.ai_summary,
                !.description = a.description,
                !.updated_at = t,
                !.is_active = TRUE]

\* storage.py:74-84, the row a create builds (id is assigned by the flush)
NewArticle(a, t) ==
    [id |-> 0, category |-> a.category, title |-> a.title, url |-> a.url,
     description |-> PyOr(a.description, ""),
     summary |-> PyOr(a.ai_summary, PyOr(a.description, "")),
     ai_summary |-> a.ai_summary,
     created_at |-> t, updated_at |-> t, is_active |-> TRUE]

\* a table without the unique constraint on url
UniqueViolation_Dropped(table, added) == FALSE

\* models.py:27 `unique=True` on url: the flush of the pending INSERTs fails
\* when a url is already committed or occurs twice among the pending rows
UniqueViolation(table, added) ==
    \/ \E i \in 1..Len(added) : RowsOf(table, added[i].url) # {}
    \/ \E i, j \in 1..Len(added) : i < j /\ added[i].url = added[j].url

\* a commit that also stamps an updated row as created at its update
Committed_Recreated(table, s, firstId) ==
    LET upd(row) ==
            IF \E m \in 1..Len(s.updated) : s.updated[m].id = row.id
            THEN LET img == s.updated[CHOOSE m \in 1..Len(s.updated) : s.updated[m].id = row.id]
                 IN  [img EXCEPT !.created_at = img.updated_at]
            ELSE row
    IN  { upd(row) : row \in table }
          \cup { [s.added[i] EXCEPT !.id = firstId + i - 1] : i \in 1..Len(s.added) }

\* the table after the commit of session s: UPDATE ... WHERE id = pk of the
\* five assigned columns, INSERT of the added rows with fresh ids
Committed(table, s, firstId) ==
    LET upd(row) ==
            IF \E m \in 1..Len(s.updated) : s.updated[m].id = row.id
            THEN LET img == s.updated[CHOOSE m \in 1..Len(s.updated) : s.updated[m].id = row.id]
                 IN  [row EXCEPT !.summary = img.summary,
                                 !.ai_summary = img.ai_summary,
                                 !.description = img.description,
                                 !.updated_at = img.updated_at,
                                 !.is_active = img.is_active]
            ELSE row
    IN  { upd(row) : row \in table }
          \cup { [s.added[i] EXCEPT !.id = firstId + i - 1] : i \in 1..Len(s.added) }

(***************************************************************************)
(* StorageProcessor.process, storage.py:33-105.  One action per suspension *)
(* point: the call itself, each loop iteration (await session.execute),    *)
(* and the commit.                                                         *)
(***************************************************************************)

\* storage.py:46-53: the call on an input_data of n articles, with its
\* early returns
StorageProcess(r, n) ==
    /\ st[r].pc # "running"
    /\ calls < MaxCalls
    /\ calls' = calls + 1
    /\ st' = [st EXCEPT ![r] =
                 IF ~enabled[r].storage \/ n = 0
                 THEN [IdleCall EXCEPT !.pc = "returned"]
                 ELSE [IdleCall EXCEPT !.pc = "running", !.todo = n]]
    /\ UNCHANGED <<db, nextId, now, enabled>>

\* storage.py:56-91: one iteration of the loop on article a; exc is an
\* exception raised inside the inner try, which the inner except logs and
\* skips: an error of the SELECT or the flush, or the TypeError of
\* NewsArticle(ai_summary=...) on a NewsArticle class that declares no
\* ai_summary column (models.py:19-32)
StorageUpsert(r, a, exc) ==
    LET s == [st[r] EXCEPT !.todo = @ - 1]
        found == Lookup(s, db, a.url)
        the_row == CHOOSE row \in RowsOf(db, a.url) : TRUE
    IN  /\ st[r].pc = "running"
        /\ st[r].todo > 0
        /\ st' = [st EXCEPT ![r] =
               IF exc \/ found.kind = "error"
               THEN [s EXCEPT !.raised = TRUE]
               ELSE IF found.kind = "new"
               THEN [s EXCEPT !.added[found.i] = UpdateExisting(s.added[found.i], a, now),
                              !.saved_articles = Append(s.saved_articles, a.url)]
               ELSE IF found.kind = "loaded"
               THEN [s EXCEPT !.updated[found.i] = UpdateExisting(s.updated[found.i], a, now),
                              !.saved_articles = Append(s.saved_articles, a.url)]
               ELSE IF found.kind = "db"
               THEN [s EXCEPT !.updated = Append(s.updated, UpdateExisting(the_row, a, now)),
                              !.saved_articles = Append(s.saved_articles, a.url)]
               ELSE [s EXCEPT !.added = Append(s.added, NewArticle(a, now)),
                              !.saved_articles = Append(s.saved_articles, a.url)]]
        /\ UNCHANGED <<db, nextId, now, calls, enabled>>

\* storage.py:93-105: commit, or rollback and ProcessingError; dbfail is a
\* failure of the database during the commit.  The session's pending rows
\* end with the transaction.
StorageCommit(r, dbfail) ==
    LET s == st[r]
    IN  /\ s.pc = "running"
        /\ s.todo = 0
        /\ IF dbfail \/ UniqueViolation(db, s.added)
           THEN /\ st' = [st EXCEPT ![r] =
                           [s EXCEPT !.pc = "failed",
                                     !.error = IF dbfail THEN "OperationalError"
                                               ELSE "IntegrityError",
                                     !.added = <<>>, !.updated = <<>>,
                                     !.saved_articles = <<>>]]
                /\ UNCHANGED <<db, nextId>>
           ELSE /\ db' = Committed(db, s, nextId)
                /\ nextId' = nextId + Len(s.added)
                /\ st' = [st EXCEPT ![r] =
                           [s EXCEPT !.pc = "returned",
                                     !.added = <<>>, !.updated = <<>>]]
        /\ UNCHANGED <<now, calls, enabled>>

\* base.py:46-52: Processor.enable / Processor.disable of processor p of
\* run r's service
ProcessorToggle(r, p) ==
    /\ enabled' = [enabled EXCEPT ![r][p] = ~enabled[r][p]]

\* the clock advances
Tick ==
    /\ now < MaxTime
    /\ now' = now + HoursPerTick

AllEnabled == [selection |-> TRUE, summarization |-> TRUE, storage |-> TRUE]

(***************************************************************************)
(* SummarizationProcessor.process, summarization.py:31-101.  One task per  *)
(* article; a task waits for the semaphore, holds it across the            *)
(* summarize_article call, and releases it when the call ends.             *)
(***************************************************************************)

\* SelectedArticle values handed to the summarization stage
SelectedArticles ==
    { [url |-> "u1", category |-> "technology", title |-> "t1", description |-> "d1"],
      [url |-> "u2", category |-> "sports", title |-> "t2", description |-> None] }

\* the input_data lists handed to SummarizationProcessor.process
SelectedLists == SeqsUpTo(SelectedArticles, MaxInput)

\* what llm_client.summarize_article does: it returns a summary, or raises
LLMSummaries == {"s1", ""}
SummarizeOutcomes == LLMSummaries \cup {"raise"}

\* schemas.py:102-114
from_selected_article(article, ai_summary) ==
    [url |-> article.url, category |-> article.category, title |-> article.title,
     description |-> article.description, ai_summary |-> ai_summary]

IdleSumm == [pc |-> "idle", max_concurrent |-> MaxConcurrent, input_data |-> <<>>,
             task |-> <<>>, llm |-> <<>>, ret |-> <<>>, permits |-> 0,
             results |-> <<>>]

\* a task that fell back to the description when its call raised
TaskReturn_DescriptionFallback(article, outcome) ==
    from_selected_article(article,
        IF outcome = "raise" THEN article.description ELSE outcome)

\* summarization.py:60-73: the value a task returns
TaskReturn(article, outcome) ==
    from_selected_article(article, IF outcome = "raise" THEN None ELSE outcome)

\* a semaphore that admits every task
SemaphoreFree_Always(permits) == TRUE

\* summarization.py:59: `async with semaphore` passes when a permit is left
SemaphoreFree(permits) == permits > 0

\* summarization.py:44-56 and 76: the call, with its early returns; else the
\* semaphore is created and one task per article is started
SummProcess(r, input_data) ==
    /\ sm[r].pc # "running"
    /\ sm' = [sm EXCEPT ![r] =
          IF ~enabled[r].summarization
          THEN [sm[r] EXCEPT !.pc = "returned", !.input_data = input_data,
                             !.task = <<>>, !.llm = <<>>, !.ret = <<>>, !.permits = 0,
                             !.results = [i \in 1..Len(input_data) |->
                                            from_selected_article(input_data[i], None)]]
          ELSE IF input_data = <<>>
          THEN [sm[r] EXCEPT !.pc = "returned", !.input_data = input_data,
                             !.task = <<>>, !.llm = <<>>, !.ret = <<>>, !.permits = 0,
                             !.results = <<>>]
          ELSE [sm[r] EXCEPT !.pc = "running", !.input_data = input_data,
                             !.task = [i \in 1..Len(input_data) |-> "waiting"],
                             !.llm = [i \in 1..Len(input_data) |-> "pending"],
                             !.ret = [i \in 1..Len(input_data) |-> None],
                             !.permits = sm[r].max_concurrent,
                             !.results = <<>>]]

\* summarization.py:59-62: task i enters the semaphore and starts its
\* summarize_article call
SummAcquire(r, i) ==
    /\ sm[r].pc = "running"
    /\ i \in 1..Len(sm[r].task)
    /\ sm[r].task[i] = "waiting"
    /\ SemaphoreFree(sm[r].permits)
    /\ sm' = [sm EXCEPT ![r].task[i] = "running", ![r].permits = @ - 1]

\* summarization.py:62-73: the call of task i ends with outcome; the task
\* returns its ProcessedArticle and leaves the semaphore
SummFinish(r, i, outcome) ==
    /\ sm[r].pc = "running"
    /\ i \in 1..Len(sm[r].task)
    /\ sm[r].task[i] = "running"
    /\ sm' = [sm EXCEPT ![r].task[i] = "done",
                        ![r].llm[i] = outcome,
                        ![r].ret[i] = TaskReturn(sm[r].input_data[i], outcome),
                        ![r].permits = @ + 1]

\* summarization.py:77-93: gather returns when every task is done; the
\* results are the tasks' return values in input order
SummGather(r) ==
    /\ sm[r].pc = "running"
    /\ \A i \in 1..Len(sm[r].task) : sm[r].task[i] = "done"
    /\ sm' = [sm EXCEPT ![r].pc = "returned", ![r].results = sm[r].ret]

(***************************************************************************)
(* SelectionProcessor (selection.py) and the LLM client's                  *)
(* select_top_articles (openai_client.py, openrouter_client.py).           *)
(***************************************************************************)

\* two of the categories of settings.AVAILABLE_CATEGORIES (config.py:64-75)
AVAILABLE_CATEGORIES == {"technology", "sports"}

\* the categories lists a caller passes: empty, with unknown names only,
\* with available names, mixed, and with one name twice
CategoryLists ==
    { <<>>, <<"bogus">>, <<"bogus", "bogus">>, <<"technology">>,
      <<"sports", "technology">>, <<"technology", "bogus">>,
      <<"sports", "sports">> }

\* RawArticle values fetch_news_for_category builds for a category
\* (selection.py:157-169); a list may hold the same one twice
RawArticlesOf(c) ==
    { [url |-> "u1", category |-> c, title |-> "t1", description |-> "d1"],
      [url |-> "u2", category |-> c, title |-> "t2", description |-> None] }

\* the lists fetch_news_for_category returns for a category name
RawLists == [c \in AVAILABLE_CATEGORIES \cup {"bogus"} |->
                SeqsUpTo(RawArticlesOf(c), MaxRaw)]

\* schemas.py:60-71
from_raw_article(raw_article) ==
    [url |-> raw_article.url, category |-> raw_article.category,
     title |-> raw_article.title, description |-> raw_article.description]

\* Python s[:n]
Take(s, n) == SubSeq(s, 1, IF n < Len(s) THEN n ELSE Len(s))

\* selection.py:67-77: the dict handed to the LLM client for a RawArticle
ArticleDict(article) ==
    [url |-> article.url, category |-> article.category, title |-> article.title,
     description |-> PyOr(article.description, "")]

\* what the LLM request of select_top_articles ends with: the request raises
\* after its retries, the response text is not JSON, or it is a JSON array
\* of numbers, of which MaxRaw + 1 names no article
LLMResponses ==
    { [kind |-> k, indices |-> <<>>] : k \in {"unreachable", "malformed"} }
    \cup { [kind |-> "indices", indices |-> s] :
               s \in SeqsUpTo(1..(MaxRaw + 1), MaxAnswer) }

\* openai_client.py:107-113: the articles the 1-based numbers name, the
\* numbers out of range skipped, the loop left at top_count articles
RECURSIVE PickIndices(_, _, _, _)
PickIndices(articles, selected_indices, top_count, acc) ==
    IF selected_indices = <<>> THEN acc
    ELSE LET idx == Head(selected_indices)
         IN  IF 1 <= idx /\ idx <= Len(articles)
             THEN LET acc2 == Append(acc, articles[idx])
                  IN  IF Len(acc2) >= top_count THEN acc2
                      ELSE PickIndices(articles, Tail(selected_indices), top_count, acc2)
             ELSE PickIndices(articles, Tail(selected_indices), top_count, acc)

\* openai_client.py:61-120: select_top_articles; a request that raises is
\* not caught by `except (json.JSONDecodeError, ValueError)`
select_top_articles(articles, top_count, response) ==
    IF Len(articles) <= top_count
    THEN [raised |-> FALSE, value |-> articles]
    ELSE IF response.kind = "unreachable"
    THEN [raised |-> TRUE, value |-> <<>>]
    ELSE IF response.kind = "malformed"
    THEN [raised |-> FALSE, value |-> Take(articles, top_count)]
    ELSE [raised |-> FALSE,
          value |-> Take(PickIndices(articles, response.indices, top_count, <<>>),
                         top_count)]

\* selection.py:89-99: each selected dict is replaced by the first RawArticle
\* of the input with its url; a dict that matches none is dropped
RECURSIVE MatchByUrl(_, _)
MatchByUrl(input_data, selected_dicts) ==
    IF selected_dicts = <<>> THEN <<>>
    ELSE LET u == Head(selected_dicts).url
             rest == MatchByUrl(input_data, Tail(selected_dicts))
         IN  IF \E i \in 1..Len(input_data) : input_data[i].url = u
             THEN <<from_raw_article(
                      input_data[CHOOSE i \in 1..Len(input_data) :
                          /\ input_data[i].url = u
                          /\ \A j \in 1..(i - 1) : input_data[j].url # u])>> \o rest
             ELSE rest

\* a disabled processor that hands back every article
SelectDisabled_All(input_data, top_count) ==
    [i \in 1..Len(input_data) |-> from_raw_article(input_data[i])]

\* selection.py:48-53: the result of a disabled processor
SelectDisabled(input_data, top_count) ==
    [i \in 1..Len(Take(input_data, top_count)) |-> from_raw_article(input_data[i])]

\* selection.py:80-110: the part of process after the LLM call
SelectWithLLM(input_data, top_count, response) ==
    LET answer == select_top_articles(
                      [i \in 1..Len(input_data) |-> ArticleDict(input_data[i])],
                      top_count, response)
    IN  IF answer.raised
        THEN [raised |-> TRUE, value |-> <<>>]
        ELSE [raised |-> FALSE,
              value |-> Take(MatchByUrl(input_data, answer.value), top_count)]

\* a filter that lets every name through
ValidCategories_All(categories) == categories

\* selection.py:216
ValidCategories(categories) == SelectSeq(categories, LAMBDA c : c \in AVAILABLE_CATEGORIES)

IdleSelect == [pc |-> "idle", top_count |-> TopCount, categories |-> <<>>,
               valid_categories |-> <<>>, task |-> <<>>, raw |-> <<>>,
               llm |-> <<>>, result |-> <<>>, fetches |-> 0,
               category_articles |-> [c \in {} |-> <<>>]]

\* selection.py:205-231: select_articles_for_categories up to the gather;
\* with no valid category it returns {} at once
SelectCategories(r, categories) ==
    /\ sel[r].pc # "running"
    /\ LET valid == ValidCategories(categories)
           n == Len(valid)
       IN  sel' = [sel EXCEPT ![r] =
               [IdleSelect EXCEPT
                   !.pc = IF n = 0 THEN "returned" ELSE "running",
                   !.categories = categories,
                   !.valid_categories = valid,
                   !.task = [i \in 1..n |-> "fetching"],
                   !.raw = [i \in 1..n |-> <<>>],
                   !.llm = [i \in 1..n |-> "not_called"],
                   !.result = [i \in 1..n |-> <<>>]]]

\* selection.py:224-228 with 48-63: fetch_news_for_category of task i
\* returns raw_articles (empty on any fetch error, selection.py:177-182);
\* process answers at once unless the LLM has to be asked
CategoryFetched(r, i, raw_articles) ==
    /\ sel[r].pc = "running"
    /\ i \in 1..Len(sel[r].task)
    /\ sel[r].task[i] = "fetching"
    /\ raw_articles \in RawLists[sel[r].valid_categories[i]]
    /\ LET top == sel[r].top_count
           askLLM == /\ raw_articles # <<>>
                     /\ enabled[r].selection
                     /\ Len(raw_articles) > top
           value == IF raw_articles = <<>> THEN <<>>
                    ELSE IF ~enabled[r].selection
                    THEN SelectDisabled(raw_articles, top)
                    ELSE [k \in 1..Len(raw_articles) |-> from_raw_article(raw_articles[k])]
       IN  sel' = [sel EXCEPT
               ![r].fetches = @ + 1,
               ![r].raw[i] = raw_articles,
               ![r].task[i] = IF askLLM THEN "selecting" ELSE "done",
               ![r].llm[i] = IF askLLM THEN "pending" ELSE "not_called",
               ![r].result[i] = IF askLLM THEN <<>> ELSE value]

\* selection.py:80-110: the LLM call of task i ends with response; the task
\* returns its selection or raises ProcessingError
CategorySelected(r, i, response) ==
    /\ sel[r].pc = "running"
    /\ i \in 1..Len(sel[r].task)
    /\ sel[r].task[i] = "selecting"
    /\ LET out == SelectWithLLM(sel[r].raw[i], sel[r].top_count, response)
       IN  sel' = [sel EXCEPT
               ![r].llm[i] = response.kind,
               ![r].task[i] = IF out.raised THEN "raised" ELSE "done",
               ![r].result[i] = out.value]

\* a gather that lets the first exception of a task through
GatherOutcome_Propagate(task) ==
    IF \E i \in 1..Len(task) : task[i] = "raised" THEN "failed" ELSE "returned"

\* selection.py:231: gather(return_exceptions=True) hands exceptions back as
\* results, so the call goes on to return
GatherOutcome(task) == "returned"

\* selection.py:234-241: the dict built from the results in task order; a
\* later task of the same category overwrites an earlier one
RECURSIVE CollectResults(_, _, _, _)
CollectResults(valid, task, result, i) ==
    IF i = 0 THEN [c \in {} |-> <<>>]
    ELSE LET before == CollectResults(valid, task, result, i - 1)
             value == IF task[i] = "raised" THEN <<>> ELSE result[i]
         IN  [c \in DOMAIN before \cup {valid[i]} |->
                 IF c = valid[i] THEN value ELSE before[c]]

\* selection.py:231-243: every task has ended; the results are collected
SelectGathered(r) ==
    /\ sel[r].pc = "running"
    /\ \A i \in 1..Len(sel[r].task) : sel[r].task[i] \in {"done", "raised"}
    /\ sel' = [sel EXCEPT
           ![r].pc = GatherOutcome(sel[r].task),
           ![r].category_articles =
               IF GatherOutcome(sel[r].task) = "returned"
               THEN CollectResults(sel[r].valid_categories, sel[r].task,
                                   sel[r].result, Len(sel[r].task))
               ELSE [c \in {} |-> <<>>]]

(***************************************************************************)
(* PipelineService.process_categories, pipeline.py:43-136.  The call       *)
(* configures the processors, then awaits the selection, the               *)
(* summarization and the storage in turn.                                  *)
(***************************************************************************)

\* pipeline.py:90-98
ZeroResult == [articles |-> <<>>, total_count |-> 0, success_count |-> 0,
               error_count |-> 0]

IdlePipeline == [pc |-> "idle", categories |-> <<>>,
                 enable_selection |-> TRUE, enable_summarization |-> TRUE,
                 enable_storage |-> TRUE, processed |-> <<>>,
                 result |-> ZeroResult]

\* pipeline.py:86-88: the selected articles of all categories, in the order
\* the categories entered the dict
RECURSIVE Flatten(_, _, _)
Flatten(valid, category_articles, seen) ==
    IF valid = <<>> THEN <<>>
    ELSE IF Head(valid) \in seen \/ Head(valid) \notin DOMAIN category_articles
    THEN Flatten(Tail(valid), category_articles, seen)
    ELSE category_articles[Head(valid)]
             \o Flatten(Tail(valid), category_articles, seen \cup {Head(valid)})

\* pipeline.py:109-110
SuccessCount(processed_articles) ==
    Cardinality({ i \in 1..Len(processed_articles) :
                     Truthy(processed_articles[i].ai_summary) })

\* pipeline.py:109-125
ResultOf(processed_articles) ==
    [articles |-> processed_articles,
     total_count |-> Len(processed_articles),
     success_count |-> SuccessCount(processed_articles),
     error_count |-> Len(processed_articles) - SuccessCount(processed_articles)]

\* pipeline.py:64-83: the flags are applied to the processors and the
\* selection is started
PipelineStart(r, categories, enable_selection, enable_summarization, enable_storage) ==
    /\ pl[r].pc = "idle"
    /\ enabled' = [enabled EXCEPT ![r] = [selection |-> enable_selection,
                                          summarization |-> enable_summarization,
                                          storage |-> enable_storage]]
    /\ SelectCategories(r, categories)
    /\ pl' = [pl EXCEPT ![r] = [IdlePipeline EXCEPT
                 !.pc = "selecting", !.categories = categories,
                 !.enable_selection = enable_selection,
                 !.enable_summarization = enable_summarization,
                 !.enable_storage = enable_storage]]

\* pipeline.py:83-101: the selection has returned; with nothing selected the
\* call returns the zero result, else the summarization is started.  The
\* locals of the returned selection call are gone.
PipelineSelected(r) ==
    /\ pl[r].pc = "selecting"
    /\ sel[r].pc = "returned"
    /\ sel' = [sel EXCEPT ![r] = [IdleSelect EXCEPT !.pc = "returned",
                                                   !.fetches = sel[r].fetches]]
    /\ LET all_selected_articles ==
               Flatten(sel[r].valid_categories, sel[r].category_articles, {})
       IN  IF all_selected_articles = <<>>
           THEN /\ pl' = [pl EXCEPT ![r].pc = "returned", ![r].result = ZeroResult]
                /\ UNCHANGED sm
           ELSE /\ SummProcess(r, all_selected_articles)
                /\ pl' = [pl EXCEPT ![r].pc = "summarizing"]

\* a pipeline that awaits the storage processor whatever enable_storage says
PipelineSummarized_AlwaysStore(r) ==
    /\ pl[r].pc = "summarizing"
    /\ sm[r].pc = "returned"
    /\ sm' = [sm EXCEPT ![r] = [IdleSumm EXCEPT !.pc = "returned"]]
    /\ StorageProcess(r, Len(sm[r].results))
    /\ pl' = [pl EXCEPT ![r].pc = "storing", ![r].processed = sm[r].results]

\* pipeline.py:101-126: the summarization has returned; the storage is
\* started when enabled, else the call returns its result.  The locals of
\* the returned summarization call are gone.
PipelineSummarized(r) ==
    /\ pl[r].pc = "summarizing"
    /\ sm[r].pc = "returned"
    /\ sm' = [sm EXCEPT ![r] = [IdleSumm EXCEPT !.pc = "returned"]]
    /\ LET processed_articles == sm[r].results
       IN  IF pl[r].enable_storage
           THEN /\ StorageProcess(r, Len(processed_articles))
                /\ pl' = [pl EXCEPT ![r].pc = "storing",
                                    ![r].processed = processed_articles]
           ELSE /\ pl' = [pl EXCEPT ![r].pc = "returned",
                                    ![r].processed = processed_articles,
                                    ![r].result = ResultOf(processed_articles)]
                /\ UNCHANGED <<storageVars, enabled>>

\* storage.py:56: the article of the loop iteration the storage call is at
PipelineUpsert(r, exc) ==
    /\ pl[r].pc = "storing"
    /\ st[r].pc = "running"
    /\ st[r].todo > 0
    /\ StorageUpsert(r, pl[r].processed[Len(pl[r].processed) - st[r].todo + 1], exc)

\* pipeline.py:106-129: the storage has returned or raised ProcessingError,
\* which the call lets through
PipelineStored(r) ==
    /\ pl[r].pc = "storing"
    /\ st[r].pc \in {"returned", "failed"}
    /\ pl' = [pl EXCEPT
           ![r].pc = IF st[r].pc = "failed" THEN "failed" ELSE "returned",
           ![r].result = IF st[r].pc = "failed" THEN ZeroResult
                         ELSE ResultOf(pl[r].processed)]

(***************************************************************************)
(* FreshnessScorer (freshness.py) and SmartServingService.get_fresh_articles*)
(* (serving.py:37-150).  Scores are counted in units of 0.0001, the         *)
(* precision calculate_freshness_score rounds to.                          *)
(***************************************************************************)

\* freshness.py:23-37, the windows of the two modelled categories, in hours
freshness_windows == [technology |-> 6, sports |-> 12]

\* freshness.py:40
default_freshness_window == 24

\* config.py:56, 0.4 in units of 0.0001
AUTO_REFRESH_FRESHNESS_THRESHOLD == 4000

\* freshness.py:45-55
get_freshness_window(category) ==
    IF category \in DOMAIN freshness_windows THEN freshness_windows[category]
    ELSE default_freshness_window

\* freshness.py:84: excess_ratio ** 1.5 in units of 0.00000001, for the
\* excess ratios k/12 (k = 1..11) that whole hours give in a window of 6, 12
\* or 24 hours
Pow15Twelfths ==
    << 2405626, 6804138, 12500000, 19245009, 26895718, 35355339,
       44552819, 54433105, 64951905, 76072577, 87764152 >>

\* freshness.py:57-91 at time t: zero from the window on, linear decay up
\* to half the window, the linear score times the decay factor after it,
\* rounded to 4 places
calculate_freshness_score(article_created_at, category, t) ==
    LET age_hours == t - article_created_at
        freshness_window == get_freshness_window(category)
    IN  IF age_hours >= freshness_window THEN 0
        ELSE IF 2 * age_hours > freshness_window
        THEN LET k == (12 * (2 * age_hours - freshness_window)) \div freshness_window
                 decay_factor == 100000000 - Pow15Twelfths[k]
                 score == ((freshness_window - age_hours) * decay_factor)
                              \div freshness_window
             IN  (score + 5000) \div 10000
        ELSE (20000 * (freshness_window - age_hours) + freshness_window)
                 \div (2 * freshness_window)

\* storage.py:159-169: the rows the query of a category returns at time t
FreshRows(table, category, t) ==
    LET cutoff_time == t - get_freshness_window(category)
    IN  { row \in table : /\ row.category = category
                          /\ row.created_at >= cutoff_time
                          /\ row.is_active }

\* serving.py:79-84: sum(freshness_scores) of the articles of a category
RECURSIVE SumScores(_, _, _)
SumScores(articles, category, t) ==
    IF articles = {} THEN 0
    ELSE LET article == CHOOSE x \in articles : TRUE
         IN  calculate_freshness_score(article.created_at, category, t)
                 + SumScores(articles \ {article}, category, t)

\* serving.py:84-92: avg_freshness < settings.AUTO_REFRESH_FRESHNESS_THRESHOLD
LowFreshness(articles, category, t) ==
    SumScores(articles, category, t)
        < AUTO_REFRESH_FRESHNESS_THRESHOLD * Cardinality(articles)

\* a minimum check that never fires
TooFew_Never(count, min_articles_per_category) == FALSE

\* serving.py:100: len(articles) < min_articles_per_category
TooFew(count, min_articles_per_category) == count < min_articles_per_category

\* serving.py:69-107: the needs_refresh list the loop over the categories
\* builds; a category can enter it twice
RECURSIVE NeedsRefresh(_, _, _, _)
NeedsRefresh(categories, found, min_articles_per_category, t) ==
    IF categories = <<>> THEN <<>>
    ELSE LET category == Head(categories)
             articles == found[category]
             rest == NeedsRefresh(Tail(categories), found, min_articles_per_category, t)
         IN  IF articles = {} THEN <<category>> \o rest
             ELSE (IF LowFreshness(articles, category, t) THEN <<category>> ELSE <<>>)
                  \o (IF TooFew(Cardinality(articles), min_articles_per_category)
                      THEN <<category>> ELSE <<>>)
                  \o rest

(***************************************************************************)
(* RelevanceValidator (relevance.py) and ArticleRanker (ranking.py).       *)
(* Scores are counted in units of 0.0001, the precision both round to.     *)
(* The texts of the modelled articles are                                  *)
(*   t1 "Global chipmakers post record quarterly earnings as demand for AI *)
(*       data center hardware keeps on surging"                            *)
(*   t2 "City marathon draws a record field today"                         *)
(*   t3  t1 with "growing" for "surging"                                   *)
(*   t4 "Global chipmakers post record quarterly losses as demand for      *)
(*       consumer phone hardware keeps on falling"                         *)
(*   d1 "Semiconductor companies reported their strongest quarter on       *)
(*       record, lifted by orders from cloud providers building out data   *)
(*       centers for AI workloads."                                        *)
(*   d2 "Thousands ran through downtown"                                   *)
(*   d3 "Semiconductor companies reported their weakest quarter on record, *)
(*       hurt by orders from phone makers cutting back on data centers for *)
(*       AI workloads."                                                    *)
(*   s1 "Chipmakers posted record results this quarter. Cloud providers    *)
(*       ordered more accelerators than ever, and suppliers expect demand  *)
(*       to stay high next year."                                          *)
(* and every url stands for an https:// address.                           *)
(***************************************************************************)

\* len(text.strip()) of the texts above
TextLen ==
    [t1 |-> 103, t2 |-> 40, t3 |-> 103, t4 |-> 101,
     d1 |-> 149, d2 |-> 30, d3 |-> 145, s1 |-> 151]

\* relevance.py:119: SequenceMatcher(None, text1, text2).ratio() of two
\* different texts above, first argument first (the ratio is not symmetric)
SequenceMatcherRatio ==
    [t1 |-> [t2 |-> 2937, t3 |-> 9709, t4 |-> 8137],
     t2 |-> [t1 |-> 3077, t3 |-> 3077, t4 |-> 3121],
     t3 |-> [t1 |-> 9709, t2 |-> 2937, t4 |-> 8137],
     t4 |-> [t1 |-> 8137, t2 |-> 2837, t3 |-> 8137],
     d1 |-> [d2 |-> 2011, d3 |-> 8299],
     d2 |-> [d1 |-> 2235, d3 |-> 2286],
     d3 |-> [d1 |-> 8299, d2 |-> 2057]]

\* relevance.py:22-27
min_title_length == 10
min_description_length == 20
min_summary_length == 30
similarity_threshold == 8500

\* config.py:54, 0.5
MIN_RELEVANCE_SCORE == 5000

Min(a, b) == IF a < b THEN a ELSE b

\* relevance.py:29-82: title 30%, description 20%, ai_summary 30% (or the
\* plain summary at 0.8 of it when there is no ai_summary), url 10%,
\* is_active 10%
calculate_relevance_score(article) ==
    LET title_score ==
            IF Truthy(article.title) /\ TextLen[article.title] >= min_title_length
            THEN 30 * Min(100, TextLen[article.title]) ELSE 0
        desc_score ==
            IF Truthy(article.description)
               /\ TextLen[article.description] >= min_description_length
            THEN 10 * Min(200, TextLen[article.description]) ELSE 0
        summary_score ==
            IF Truthy(article.ai_summary)
            THEN IF TextLen[article.ai_summary] >= min_summary_length
                 THEN 20 * Min(150, TextLen[article.ai_summary]) ELSE 0
            ELSE IF Truthy(article.summary)
                    /\ TextLen[article.summary] >= min_summary_length
                 THEN 16 * Min(150, TextLen[article.summary]) ELSE 0
        url_score == IF Truthy(article.url) THEN 1000 ELSE 0
        active_score == IF article.is_active THEN 1000 ELSE 0
    IN  Min(10000, title_score + desc_score + summary_score + url_score + active_score)

\* relevance.py:84-96
is_relevant(article, min_score) == calculate_relevance_score(article) >= min_score

\* relevance.py:98-119
calculate_similarity(text1, text2) ==
    IF ~Truthy(text1) \/ ~Truthy(text2) THEN 0
    ELSE IF text1 = text2 THEN 10000
    ELSE SequenceMatcherRatio[text1][text2]

\* relevance.py:144-171: article2 joins the group of article1
IsDuplicate(article1, article2) ==
    LET title_similarity ==
            calculate_similarity(PyOr(article1.title, ""), PyOr(article2.title, ""))
        url_match == article1.url = article2.url
        desc_similarity ==
            calculate_similarity(PyOr(article1.description, ""),
                                 PyOr(article2.description, ""))
    IN  \/ url_match
        \/ title_similarity >= similarity_threshold
        \/ title_similarity >= 7000 /\ desc_similarity >= 7000

\* relevance.py:140-171: the inner loop from position j on; an article2
\* whose id is in processed is skipped, a duplicate of article1 joins the
\* group and is processed
RECURSIVE CompareWithLater(_, _, _, _, _)
CompareWithLater(articles, i, j, duplicate_group, processed) ==
    IF j > Len(articles)
    THEN [duplicate_group |-> duplicate_group, processed |-> processed]
    ELSE IF articles[j].id \in processed
    THEN CompareWithLater(articles, i, j + 1, duplicate_group, processed)
    ELSE IF IsDuplicate(articles[i], articles[j])
    THEN CompareWithLater(articles, i, j + 1,
                          duplicate_group \cup {articles[j].id},
                          processed \cup {articles[j].id})
    ELSE CompareWithLater(articles, i, j + 1, duplicate_group, processed)

\* relevance.py:134-177: the outer loop from position i on
RECURSIVE FindDuplicatesFrom(_, _, _, _)
FindDuplicatesFrom(articles, i, duplicates, processed) ==
    IF i > Len(articles) THEN duplicates
    ELSE IF articles[i].id \in processed
    THEN FindDuplicatesFrom(articles, i + 1, duplicates, processed)
    ELSE LET inner == CompareWithLater(articles, i, i + 1,
                                       {articles[i].id}, processed)
         IN  IF Cardinality(inner.duplicate_group) > 1
             THEN FindDuplicatesFrom(articles, i + 1,
                                     Append(duplicates, inner.duplicate_group),
                                     inner.processed \cup {articles[i].id})
             ELSE FindDuplicatesFrom(articles, i + 1, duplicates, inner.processed)

\* relevance.py:121-177
find_duplicates(articles) == FindDuplicatesFrom(articles, 1, <<>>, {})

\* relevance.py:198: article_map, the last article of the list with the id
ArticleMap(articles, id) ==
    LET last == CHOOSE i \in 1..Len(articles) :
                    /\ articles[i].id = id
                    /\ \A j \in (i + 1)..Len(articles) : articles[j].id # id
    IN  articles[last]

\* a group keeps its member of smallest id, whatever the relevance scores
ToKeep_SmallestId(articles, duplicate_group) ==
    CHOOSE id \in duplicate_group : \A other \in duplicate_group : id <= other

\* relevance.py:203-212: the article a group keeps, the first of the group
\* after the stable sort by descending relevance; a set of small ints is
\* iterated in ascending order, so the smallest id wins a tie
ToKeep(articles, duplicate_group) ==
    CHOOSE id \in duplicate_group :
        \A other \in duplicate_group \ {id} :
            LET mine == calculate_relevance_score(ArticleMap(articles, id))
                theirs == calculate_relevance_score(ArticleMap(articles, other))
            IN  mine > theirs \/ (mine = theirs /\ id < other)

\* relevance.py:179-224
deduplicate_articles(articles) ==
    IF Len(articles) <= 1 THEN articles
    ELSE LET duplicates == find_duplicates(articles)
             to_remove == UNION { duplicates[g] \ {ToKeep(articles, duplicates[g])} :
                                    g \in 1..Len(duplicates) }
         IN  IF duplicates = <<>> THEN articles
             ELSE SelectSeq(articles, LAMBDA article : article.id \notin to_remove)

\* relevance.py:226-249
filter_by_relevance(articles, min_score) ==
    SelectSeq(articles, LAMBDA article : is_relevant(article, min_score))

\* ranking.py:22-24 and 184: the weights of the global article_ranker, in
\* tenths; they sum to 1.0 and are left as given
freshness_weight == 4
relevance_weight == 4
selection_weight == 2

\* ranking.py:48-89 at time t: selection_score is the constant 0.5; the
\* weighted sum, rounded to 4 places
calculate_composite_score(article, t) ==
    LET freshness_score ==
            calculate_freshness_score(article.created_at, article.category, t)
        relevance_score == calculate_relevance_score(article)
        selection_score == 5000
    IN  (freshness_score * freshness_weight + relevance_score * relevance_weight
             + selection_score * selection_weight + 5) \div 10

\* a sort that puts x in front of the elements with its key
RECURSIVE InsertByScore_Unstable(_, _, _)
InsertByScore_Unstable(sorted, x, t) ==
    IF sorted = <<>> THEN <<x>>
    ELSE IF calculate_composite_score(Head(sorted), t) > calculate_composite_score(x, t)
    THEN <<Head(sorted)>> \o InsertByScore_Unstable(Tail(sorted), x, t)
    ELSE <<x>> \o sorted

\* list.sort(key, reverse=True) is stable: x goes behind every element whose
\* key is not smaller
RECURSIVE InsertByScore(_, _, _)
InsertByScore(sorted, x, t) ==
    IF sorted = <<>> THEN <<x>>
    ELSE IF calculate_composite_score(Head(sorted), t) >= calculate_composite_score(x, t)
    THEN <<Head(sorted)>> \o InsertByScore(Tail(sorted), x, t)
    ELSE <<x>> \o sorted

RECURSIVE SortByScore(_, _, _)
SortByScore(articles, sorted, t) ==
    IF articles = <<>> THEN sorted
    ELSE SortByScore(Tail(articles), InsertByScore(sorted, Head(articles), t), t)

\* ranking.py:91-127 at time t; the limit None is written 0, which line 119
\* (limit is not None and limit > 0) treats as it treats None
rank_articles(articles, limit, t) ==
    LET ranked_articles == SortByScore(articles, <<>>, t)
    IN  IF limit > 0 THEN Take(ranked_articles, limit) ELSE ranked_articles

\* serving.py:169-174 and 178: articles_by_category.get(category, [])
ArticlesOfCategory(articles, category) ==
    SelectSeq(articles, LAMBDA article : article.category = category)

\* serving.py:152-191
RECURSIVE ensure_minimum_per_category(_, _, _)
ensure_minimum_per_category(articles, categories, min_articles) ==
    IF categories = <<>> THEN <<>>
    ELSE LET category_articles == ArticlesOfCategory(articles, Head(categories))
             selected == IF Len(category_articles) >= min_articles
                         THEN SubSeq(category_articles, 1, min_articles)
                         ELSE category_articles
         IN  selected \o ensure_minimum_per_category(articles, Tail(categories),
                                                     min_articles)

\* the categories lists of the requests served: empty, one category, two
\* categories, and one category twice
ServedCategoryLists ==
    { <<>>, <<"technology">>, <<"sports", "technology">>, <<"sports", "sports">> }

IdleServe == [pc |-> "idle", categories |-> <<>>, min_articles_per_category |-> 0,
              auto_refresh |-> TRUE, pipeline_service |-> TRUE, queried |-> 0,
              found |-> [c \in {} |-> {}], category_articles |-> [c \in {} |-> <<>>],
              needs_refresh |-> <<>>, ranked_articles |-> <<>>, articles |-> <<>>,
              articles_found |-> [c \in {} |-> 0],
              articles_after_filtering |->
                  [before_dedup |-> 0, after_dedup |-> 0, final |-> 0],
              refresh_triggered |-> FALSE, refresh_categories |-> <<>>]

\* serving.py:55-63: the call starts and awaits the storage query
GetFreshArticles(r, categories, min_articles_per_category, auto_refresh) ==
    /\ sv[r].pc \in {"idle", "returned"}
    /\ sv' = [sv EXCEPT ![r] = [IdleServe EXCEPT
                 !.pc = "querying", !.categories = categories,
                 !.pipeline_service = sv[r].pipeline_service,
                 !.min_articles_per_category = min_articles_per_category,
                 !.auto_refresh = auto_refresh]]

\* storage.py:169 `.order_by(NewsArticle.created_at.desc())`: the orders the
\* query can return the rows in; rows created at the same time come in any
\* order
RECURSIVE OrderedByCreatedDesc(_)
OrderedByCreatedDesc(rows) ==
    IF rows = {} THEN { <<>> }
    ELSE UNION { { <<first>> \o rest : rest \in OrderedByCreatedDesc(rows \ {first}) } :
                   first \in { x \in rows :
                                 \A y \in rows : x.created_at >= y.created_at } }

\* storage.py:150-175: one iteration of get_fresh_articles_by_category, the
\* query of the next category; a category listed twice is queried twice and
\* the later answer replaces the earlier.  found holds the rows of the
\* answer and category_articles the list they come in.
QueryCategory(r) ==
    /\ sv[r].pc = "querying"
    /\ sv[r].queried < Len(sv[r].categories)
    /\ LET category == sv[r].categories[sv[r].queried + 1]
           articles == FreshRows(db, category, now)
       IN  \E listed \in OrderedByCreatedDesc(articles) :
             sv' = [sv EXCEPT
               ![r].queried = @ + 1,
               ![r].found = [c \in DOMAIN sv[r].found \cup {category} |->
                                IF c = category THEN articles ELSE sv[r].found[c]],
               ![r].category_articles =
                   [c \in DOMAIN sv[r].found \cup {category} |->
                       IF c = category THEN listed ELSE sv[r].category_articles[c]]]

\* serving.py:66-107: all_articles, the lists of the requested categories
\* one after the other
RECURSIVE AllArticles(_, _)
AllArticles(categories, category_articles) ==
    IF categories = <<>> THEN <<>>
    ELSE category_articles[Head(categories)]
             \o AllArticles(Tail(categories), category_articles)

\* serving.py:66-150: the query has returned; the categories are examined
\* and the metadata is filled in.  Lines 124-131 assign the deduplicated and
\* filtered list to all_articles again, so line 146 takes before_dedup from
\* that list
ExamineCategories(r) ==
    /\ sv[r].pc = "querying"
    /\ sv[r].queried = Len(sv[r].categories)
    /\ LET needs_refresh == NeedsRefresh(sv[r].categories, sv[r].found,
                                         sv[r].min_articles_per_category, now)
           triggered == /\ sv[r].auto_refresh
                        /\ needs_refresh # <<>>
                        /\ sv[r].pipeline_service
           all_articles == AllArticles(sv[r].categories, sv[r].category_articles)
           relevant == filter_by_relevance(deduplicate_articles(all_articles),
                                           MIN_RELEVANCE_SCORE)
           ranked_articles == rank_articles(relevant, 0, now)
           final_articles == ensure_minimum_per_category(
                                 ranked_articles, sv[r].categories,
                                 sv[r].min_articles_per_category)
       IN  sv' = [sv EXCEPT
               ![r].pc = "returned",
               ![r].needs_refresh = needs_refresh,
               ![r].ranked_articles = ranked_articles,
               ![r].articles = final_articles,
               ![r].articles_found = [c \in DOMAIN sv[r].found |->
                                         Cardinality(sv[r].found[c])],
               ![r].articles_after_filtering =
                   [before_dedup |-> Len(relevant),
                    after_dedup |-> Len(ranked_articles),
                    final |-> Len(final_articles)],
               ![r].refresh_triggered = triggered,
               ![r].refresh_categories = IF triggered THEN needs_refresh ELSE <<>>]

\* storage.py:33-105: a whole StorageProcessor.process call of another
\* request on the one article a, in which nothing fails; the table changes
\* at its commit only
StoreArticle(a) ==
    /\ calls < MaxCalls
    /\ calls' = calls + 1
    /\ LET s0 == [IdleCall EXCEPT !.pc = "running"]
           found == Lookup(s0, db, a.url)
           the_row == CHOOSE row \in RowsOf(db, a.url) : TRUE
           s == IF found.kind = "db"
                THEN [s0 EXCEPT !.updated = <<UpdateExisting(the_row, a, now)>>]
                ELSE [s0 EXCEPT !.added = <<NewArticle(a, now)>>]
       IN  /\ db' = Committed(db, s, nextId)
           /\ nextId' = nextId + Len(s.added)
    /\ UNCHANGED <<now, st, enabled>>

\* briefing.py:34-124: no request has been made
IdleBriefing == [pc |-> "idle", status |-> 0, total_articles |-> 0,
                 refresh_triggered |-> FALSE, articles |-> <<>>,
                 background_tasks |-> <<>>]

\* no pure function is under evaluation
NoCall == [pc |-> "none"]

\* a serving service answers requests while the pipeline runs of other
\* requests store articles, one per storage call, and the clock advances
ServingNext ==
    \/ \E categories \in ServedCategoryLists :
       \E min_articles_per_category \in 1..MaxMinArticles :
       \E auto_refresh \in BOOLEAN :
           /\ GetFreshArticles("A", categories, min_articles_per_category, auto_refresh)
           /\ UNCHANGED <<storageVars, enabled, sm, sel, pl, br, fn>>
    \/ QueryCategory("A") /\ UNCHANGED <<storageVars, enabled, sm, sel, pl, br, fn>>
    \/ ExamineCategories("A") /\ UNCHANGED <<storageVars, enabled, sm, sel, pl, br, fn>>
    \/ \E a \in ProcessedArticles :
           StoreArticle(a) /\ UNCHANGED <<sm, sel, pl, sv, br, fn>>
    \/ Tick /\ UNCHANGED <<db, nextId, calls, st, enabled, sm, sel, pl, sv, br, fn>>

\* the summarization calls of one processor; calls of different processors
\* share nothing (each call creates its own semaphore)
SummNext ==
    \/ \E input_data \in SelectedLists :
           SummProcess("A", input_data) /\ UNCHANGED <<storageVars, enabled, sel, pl, sv, br, fn>>
    \/ \E i \in 1..Len(sm["A"].task) :
           SummAcquire("A", i) /\ UNCHANGED <<storageVars, enabled, sel, pl, sv, br, fn>>
    \/ \E i \in 1..Len(sm["A"].task) : \E outcome \in SummarizeOutcomes :
           SummFinish("A", i, outcome) /\ UNCHANGED <<storageVars, enabled, sel, pl, sv, br, fn>>
    \/ SummGather("A") /\ UNCHANGED <<storageVars, enabled, sel, pl, sv, br, fn>>
    \/ ProcessorToggle("A", "summarization")
           /\ UNCHANGED <<storageVars, sm, sel, pl, sv, br, fn>>

\* the select_articles_for_categories calls of one processor, whose enabled
\* flag another request of the service may flip meanwhile (pipeline.py:64-67)
SelectNext ==
    \/ \E categories \in CategoryLists :
           SelectCategories("A", categories)
               /\ UNCHANGED <<storageVars, enabled, sm, pl, sv, br, fn>>
    \/ \E i \in 1..Len(sel["A"].task) :
       \E raw_articles \in RawLists[sel["A"].valid_categories[i]] :
           CategoryFetched("A", i, raw_articles)
               /\ UNCHANGED <<storageVars, enabled, sm, pl, sv, br, fn>>
    \/ \E i \in 1..Len(sel["A"].task) : \E response \in LLMResponses :
           CategorySelected("A", i, response)
               /\ UNCHANGED <<storageVars, enabled, sm, pl, sv, br, fn>>
    \/ SelectGathered("A") /\ UNCHANGED <<storageVars, enabled, sm, pl, sv, br, fn>>
    \/ ProcessorToggle("A", "selection") /\ UNCHANGED <<storageVars, sm, sel, pl, sv, br, fn>>

\* one process_categories call on one service, with the steps of the
\* processors it awaits
PipelineNext ==
    \/ \E categories \in CategoryLists \ {<<"sports", "sports">>} :
       \E enable_selection, enable_summarization, enable_storage \in BOOLEAN :
           /\ PipelineStart("A", categories, enable_selection,
                            enable_summarization, enable_storage)
           /\ UNCHANGED <<storageVars, sm, sv, br, fn>>
    \/ \E i \in 1..Len(sel["A"].task) :
       \E raw_articles \in RawLists[sel["A"].valid_categories[i]] :
           CategoryFetched("A", i, raw_articles)
               /\ UNCHANGED <<storageVars, enabled, sm, pl, sv, br, fn>>
    \/ \E i \in 1..Len(sel["A"].task) : \E response \in LLMResponses :
           CategorySelected("A", i, response)
               /\ UNCHANGED <<storageVars, enabled, sm, pl, sv, br, fn>>
    \/ SelectGathered("A") /\ UNCHANGED <<storageVars, enabled, sm, pl, sv, br, fn>>
    \/ PipelineSelected("A") /\ UNCHANGED <<storageVars, enabled, sv, br, fn>>
    \/ \E i \in 1..Len(sm["A"].task) :
           SummAcquire("A", i) /\ UNCHANGED <<storageVars, enabled, sel, pl, sv, br, fn>>
    \/ \E i \in 1..Len(sm["A"].task) : \E outcome \in SummarizeOutcomes :
           SummFinish("A", i, outcome) /\ UNCHANGED <<storageVars, enabled, sel, pl, sv, br, fn>>
    \/ SummGather("A") /\ UNCHANGED <<storageVars, enabled, sel, pl, sv, br, fn>>
    \/ PipelineSummarized("A") /\ UNCHANGED <<sel, sv, br, fn>>
    \/ \E exc \in BOOLEAN : PipelineUpsert("A", exc) /\ UNCHANGED <<sm, sel, pl, sv, br, fn>>
    \/ \E dbfail \in BOOLEAN : StorageCommit("A", dbfail) /\ UNCHANGED <<sm, sel, pl, sv, br, fn>>
    \/ PipelineStored("A") /\ UNCHANGED <<storageVars, enabled, sm, sel, sv, br, fn>>

\* the process calls of two pipeline runs, each with its own session on the
\* one table
StorageNext ==
    \/ \E r \in Runs : \E n \in 0..MaxBatch :
           StorageProcess(r, n) /\ UNCHANGED <<sm, sel, pl, sv, br, fn>>
    \/ \E r \in Runs : \E a \in ProcessedArticles : \E exc \in BOOLEAN :
           StorageUpsert(r, a, exc) /\ UNCHANGED <<sm, sel, pl, sv, br, fn>>
    \/ \E r \in Runs : \E dbfail \in BOOLEAN :
           StorageCommit(r, dbfail) /\ UNCHANGED <<sm, sel, pl, sv, br, fn>>

(***************************************************************************)
(* The state after construction: an empty table, every processor enabled   *)
(* (base.py:28), a SummarizationProcessor built with max_concurrent        *)
(* (summarization.py:21-29) and a SelectionProcessor built with top_count  *)
(* (selection.py:24-33).                                                   *)
(***************************************************************************)
Init ==
    /\ db = {}
    /\ nextId = 1
    /\ now = 0
    /\ calls = 0
    /\ enabled = [r \in Runs |-> AllEnabled]
    /\ st = [r \in Runs |-> IdleCall]
    /\ sm = [r \in Runs |-> IdleSumm]
    /\ sel = [r \in Runs |-> IdleSelect]
    /\ pl = [r \in Runs |-> IdlePipeline]
    /\ sv = [r \in Runs |-> IdleServe]
    /\ br = [r \in Runs |-> IdleBriefing]
    /\ fn = NoCall

SpecStorage == Init /\ [][StorageNext]_vars

SpecSumm == Init /\ [][SummNext]_vars

\* the table a service finds when an earlier run has stored an article
StoredBefore ==
    Committed({}, [IdleCall EXCEPT !.added =
        <<NewArticle([url |-> "u1", category |-> "technology", title |-> "t1",
                      description |-> "d1", ai_summary |-> "s1"], 0)>>], 1)

\* a service constructed on an empty table or on one with a stored article
InitPipeline ==
    /\ db \in {{}, StoredBefore}
    /\ nextId = Cardinality(db) + 1
    /\ now = 0
    /\ calls = 0
    /\ enabled = [r \in Runs |-> AllEnabled]
    /\ st = [r \in Runs |-> IdleCall]
    /\ sm = [r \in Runs |-> IdleSumm]
    /\ sel = [r \in Runs |-> IdleSelect]
    /\ pl = [r \in Runs |-> IdlePipeline]
    /\ sv = [r \in Runs |-> IdleServe]
    /\ br = [r \in Runs |-> IdleBriefing]
    /\ fn = NoCall

SpecPipeline == InitPipeline /\ [][PipelineNext]_vars

\* serving.py:26-35: the serving service of run "A" is constructed with or
\* without a pipeline_service
InitServing ==
    /\ db = {}
    /\ nextId = 1
    /\ now = 0
    /\ calls = 0
    /\ enabled = [r \in Runs |-> AllEnabled]
    /\ st = [r \in Runs |-> IdleCall]
    /\ sm = [r \in Runs |-> IdleSumm]
    /\ sel = [r \in Runs |-> IdleSelect]
    /\ pl = [r \in Runs |-> IdlePipeline]
    /\ \E pipeline_service \in BOOLEAN :
           sv = [r \in Runs |-> [IdleServe EXCEPT
                                    !.pipeline_service = pipeline_service]]
    /\ br = [r \in Runs |-> IdleBriefing]
    /\ fn = NoCall

SpecServing == InitServing /\ [][ServingNext]_vars

SpecSelect == Init /\ [][SelectNext]_vars

\* the step in which run r's process call commits and returns
CommitReturns(r) == st[r].pc = "running" /\ st'[r].pc = "returned"

\* the step in which run r's process call ends, either way
CallEnds(r) == st[r].pc = "running" /\ st'[r].pc \in {"returned", "failed"}

Range(f) == { f[i] : i \in DOMAIN f }

OneRowPerUrl == \A u \in URLS : Cardinality(RowsOf(db, u)) <= 1

\* what a returning call did to the table, url by url: a url it upserted
\* has exactly one row afterwards, the same row (same id, title, category,
\* created_at) if there was one before and one more row in the table if there
\* was none; every other url keeps its rows
UpsertEffect(r) ==
    LET upserted == Range(st'[r].saved_articles)
        absent == { u \in upserted : RowsOf(db, u) = {} }
    IN  /\ \A u \in upserted : Cardinality(RowsOf(db', u)) = 1
        /\ \A u \in upserted \ absent :
               { row.id : row \in RowsOf(db', u) } = { row.id : row \in RowsOf(db, u) }
        /\ \A u \in URLS \ upserted : RowsOf(db', u) = RowsOf(db, u)
        /\ Cardinality(db') = Cardinality(db) + Cardinality(absent)

\* C1: after any sequence of StorageProcessor.process calls the table holds
\* at most one row per url; a call that returns has created exactly one row
\* for each url it upserted that was absent, and has updated in place, creating
\* none, the row of each url it upserted that was present.
C1_OneRowPerUrl ==
    /\ []OneRowPerUrl
    /\ [][\A r \in Runs : CommitReturns(r) => UpsertEffect(r)]_vars

\* a call that upserted the same absent url twice has returned, and the one
\* row of that url carries the title of the first article and the
\* description of the second
C1_Witness ==
    \E r \in Runs :
        /\ st[r].pc = "returned"
        /\ st[r].saved_articles = <<"u1", "u1">>
        /\ \E row \in db : row.url = "u1" /\ row.title = "t1" /\ row.description = "d2"
        /\ Cardinality(RowsOf(db, "u1")) = 1

\* C2: if the upsert of any article of the batch raises, the call persists
\* nothing of the batch and ends with a ProcessingError.
C2_AllOrNothing ==
    [][\A r \in Runs :
          (CallEnds(r) /\ st[r].raised) => (st'[r].pc = "failed" /\ db' = db)]_vars

\* C3: two concurrent runs whose batches share a url never fail because of
\* the overlap (no commit ends in the unique-constraint error), the url ends
\* with exactly one row, and that row carries the summary and description of
\* the run that committed last.
C3_LastWriterWins ==
    /\ [](\A r \in Runs : st[r].error # "IntegrityError")
    /\ []OneRowPerUrl
    /\ [][\A r \in Runs : CommitReturns(r) =>
            \A img \in Range(st[r].added) \cup Range(st[r].updated) :
               \E row \in RowsOf(db', img.url) :
                  row.summary = img.summary /\ row.description = img.description]_vars

\* number of summarize_article calls of run r's batch in flight
InFlight(r) == Cardinality({ i \in 1..Len(sm[r].task) : sm[r].task[i] = "running" })

\* number of tasks of run r's batch that have started their call
Started(r) == Cardinality({ i \in 1..Len(sm[r].task) : sm[r].task[i] # "waiting" })

\* C4: during one SummarizationProcessor.process call at most max_concurrent
\* summarize_article calls are in flight, and a task that starts its call when
\* max_concurrent tasks have started before it starts only after one of them
\* has finished.
C4_ConcurrencyCap ==
    /\ [](\A r \in Runs : InFlight(r) <= sm[r].max_concurrent)
    /\ [][\A r \in Runs : \A i \in 1..Len(sm[r].task) :
            ( /\ sm[r].pc = "running" /\ sm'[r].pc = "running"
              /\ sm[r].task[i] = "waiting" /\ sm'[r].task[i] = "running"
              /\ Started(r) >= sm[r].max_concurrent )
            => \E j \in 1..Len(sm[r].task) : sm[r].task[j] = "done"]_vars

\* a batch longer than the cap: the cap is reached again after a first call
\* has finished, so a task beyond the cap has started
C4_Witness ==
    \E r \in Runs :
        /\ Len(sm[r].task) > sm[r].max_concurrent
        /\ InFlight(r) = sm[r].max_concurrent
        /\ \E j \in 1..Len(sm[r].task) : sm[r].task[j] = "done"

LastTaskOf(r, i) ==
    \A j \in (i + 1)..Len(sel[r].task) :
        sel[r].valid_categories[j] # sel[r].valid_categories[i]

\* the first n candidates of task i of run r, as SelectedArticles
FirstCandidates(r, i, n) ==
    [k \in 1..Len(Take(sel[r].raw[i], n)) |-> from_raw_article(sel[r].raw[i][k])]

\* C6: select_articles_for_categories never raises; when it has returned,
\* the recorded categories are the valid requested ones, a category whose
\* task raised is recorded with an empty list, and every other category is
\* recorded with the result of its own task (the last one, when a category
\* was requested twice).
C6_CategoryIsolated ==
    \A r \in Runs :
        /\ sel[r].pc # "failed"
        /\ sel[r].pc = "returned" =>
              /\ DOMAIN sel[r].category_articles = Range(sel[r].valid_categories)
              /\ \A i \in 1..Len(sel[r].task) :
                    LastTaskOf(r, i) =>
                        sel[r].category_articles[sel[r].valid_categories[i]] =
                            IF sel[r].task[i] = "raised" THEN <<>> ELSE sel[r].result[i]

\* a returned call of two categories: the task of the first raised, the
\* second selected an article, and both are recorded
C6_Witness ==
    \E r \in Runs :
        /\ sel[r].pc = "returned"
        /\ sel[r].valid_categories = <<"sports", "technology">>
        /\ sel[r].task = <<"raised", "done">>
        /\ sel[r].category_articles["sports"] = <<>>
        /\ Len(sel[r].category_articles["technology"]) = sel[r].top_count

\* C7: when the LLM selection call of a category fails outright (selection
\* enabled, more candidates than top_count), the task does not raise, its
\* selection is the first top_count candidates in fetch order, and the
\* category is not recorded with zero articles.
C7_FallbackFirstN ==
    \A r \in Runs : \A i \in 1..Len(sel[r].task) :
        sel[r].llm[i] = "unreachable" =>
            /\ sel[r].task[i] = "done"
            /\ sel[r].result[i] = FirstCandidates(r, i, sel[r].top_count)
            /\ (sel[r].pc = "returned" /\ LastTaskOf(r, i)) =>
                   sel[r].category_articles[sel[r].valid_categories[i]] # <<>>

\* C8: whatever the candidates, the LLM answer and the enabled flag, a
\* selection that process returned has at most top_count articles, each of
\* them is one of the candidates, and with at most top_count candidates it
\* is all of them and the LLM was not called.
C8_SelectionBounded ==
    \A r \in Runs : \A i \in 1..Len(sel[r].task) :
        sel[r].task[i] = "done" =>
            /\ Len(sel[r].result[i]) <= sel[r].top_count
            /\ \A k \in 1..Len(sel[r].result[i]) :
                   \E j \in 1..Len(sel[r].raw[i]) :
                       sel[r].result[i][k] = from_raw_article(sel[r].raw[i][j])
            /\ Len(sel[r].raw[i]) <= sel[r].top_count =>
                   /\ sel[r].llm[i] = "not_called"
                   /\ sel[r].result[i] = FirstCandidates(r, i, Len(sel[r].raw[i]))

\* a task with more candidates than top_count whose LLM answer was a list
\* of numbers, and one whose candidates were all returned without the LLM
C8_Witness ==
    \E r \in Runs : \E i, j \in 1..Len(sel[r].task) :
        /\ sel[r].task[i] = "done" /\ sel[r].llm[i] = "indices"
        /\ Len(sel[r].raw[i]) > sel[r].top_count
        /\ Len(sel[r].result[i]) = sel[r].top_count
        /\ sel[r].task[j] = "done" /\ sel[r].llm[j] = "not_called"
        /\ enabled[r].selection
        /\ sel[r].raw[j] # <<>> /\ Len(sel[r].result[j]) = Len(sel[r].raw[j])

\* no name of the categories list is an available category
NoValidCategory(categories) ==
    \A i \in 1..Len(categories) : categories[i] \notin AVAILABLE_CATEGORIES

\* C9: a process_categories call whose categories list is empty or holds no
\* available category never fails, fetches nothing, starts no storage call
\* and leaves the table as it is, and the result it returns has no articles
\* and total_count = success_count = error_count = 0.
C9_EmptyCategories ==
    [][\A r \in Runs :
          (pl'[r].pc # "idle" /\ NoValidCategory(pl'[r].categories)) =>
              /\ pl'[r].pc # "failed"
              /\ sel'[r].fetches = 0
              /\ db' = db
              /\ st' = st
              /\ pl'[r].pc = "returned" =>
                     /\ pl'[r].result.articles = <<>>
                     /\ pl'[r].result.total_count = 0
                     /\ pl'[r].result.success_count = 0
                     /\ pl'[r].result.error_count = 0]_vars

\* a call with unknown categories only has returned, on a table that holds
\* a stored article
C9_Witness ==
    \E r \in Runs :
        /\ pl[r].pc = "returned"
        /\ pl[r].categories = <<"bogus", "bogus">>
        /\ pl[r].result = ZeroResult
        /\ sel[r].fetches = 0
        /\ db = StoredBefore

\* the active rows of a category that are no older than its window at time t
InsideWindow(table, category, t) ==
    { row \in table : /\ row.category = category
                      /\ row.is_active
                      /\ t - row.created_at <= get_freshness_window(category) }

\* C10: the articles get_fresh_articles retrieves for a category are the
\* stored active articles inside its freshness window at the time of the
\* query; and when the call returns, a requested category is marked for
\* refresh if and only if it has no such article, or the average freshness
\* score of those articles is below the auto-refresh threshold, or their
\* number is below min_articles_per_category.
C10_RefreshMarking ==
    [][\A r \in Runs :
          /\ (sv[r].pc = "querying" /\ sv'[r].queried = sv[r].queried + 1) =>
                 LET category == sv[r].categories[sv'[r].queried]
                 IN  sv'[r].found[category] = InsideWindow(db, category, now)
          /\ (sv[r].pc = "querying" /\ sv'[r].pc = "returned") =>
                 /\ Range(sv'[r].needs_refresh) \subseteq Range(sv[r].categories)
                 /\ \A category \in Range(sv[r].categories) :
                        LET articles == sv[r].found[category]
                            count == Cardinality(articles)
                        IN  category \in Range(sv'[r].needs_refresh) <=>
                                \/ count = 0
                                \/ SumScores(articles, category, now)
                                       < AUTO_REFRESH_FRESHNESS_THRESHOLD * count
                                \/ count < sv[r].min_articles_per_category]_vars

\* a returned request for two categories: technology holds enough articles
\* but their average score is below the threshold and it is marked; sports
\* holds enough fresh articles and is not marked
C10_Witness ==
    \E r \in Runs :
        /\ sv[r].pc = "returned"
        /\ sv[r].categories = <<"sports", "technology">>
        /\ Cardinality(sv[r].found["technology"]) >= sv[r].min_articles_per_category
        /\ Cardinality(sv[r].found["sports"]) >= sv[r].min_articles_per_category
        /\ sv[r].needs_refresh = <<"technology">>
        /\ sv[r].refresh_triggered

(***************************************************************************)
(* The route generate_briefing (routes/briefing.py:33-124) and             *)
(* SmartServingService.get_article_metadata (serving.py:228-257).          *)
(***************************************************************************)

\* config.py:48
MAX_CATEGORIES == 10

\* freshness.py:43, 0.3
min_freshness_score == 3000

\* freshness.py:107-126
get_freshness_tier(freshness_score) ==
    IF freshness_score >= 8000 THEN "very_fresh"
    ELSE IF freshness_score >= 6000 THEN "fresh"
    ELSE IF freshness_score >= 4000 THEN "moderate"
    ELSE IF freshness_score >= 2000 THEN "stale"
    ELSE "very_stale"

\* freshness.py:93-105 at time t
is_fresh(article_created_at, category, t) ==
    calculate_freshness_score(article_created_at, category, t) >= min_freshness_score

\* serving.py:228-257 at time t
get_article_metadata(article, t) ==
    LET freshness_score ==
            calculate_freshness_score(article.created_at, article.category, t)
    IN  [freshness_score |-> freshness_score,
         freshness_tier |-> get_freshness_tier(freshness_score),
         relevance_score |-> calculate_relevance_score(article),
         composite_score |-> calculate_composite_score(article, t),
         is_fresh |-> is_fresh(article.created_at, article.category, t),
         is_relevant |-> is_relevant(article, MIN_RELEVANCE_SCORE),
         freshness_window_hours |-> get_freshness_window(article.category)]

\* the categories lists of the briefing requests: empty, one category, two
\* categories, and a category the application does not know
RequestedCategoryLists ==
    { <<>>, <<"sports">>, <<"technology">>, <<"sports", "technology">>, <<"bogus">> }

\* briefing.py:41-72: the request is validated (400 for no category, too
\* many categories or an unknown category), the services are constructed and
\* get_fresh_articles is awaited with the configured
\* settings.MIN_ARTICLES_PER_CATEGORY (config.py:55, read from the
\* environment) and auto_refresh=True
GenerateBriefing(r, categories, MIN_ARTICLES_PER_CATEGORY) ==
    /\ br[r].pc = "idle"
    /\ IF \/ categories = <<>>
          \/ Len(categories) > MAX_CATEGORIES
          \/ \E i \in 1..Len(categories) : categories[i] \notin AVAILABLE_CATEGORIES
       THEN /\ br' = [br EXCEPT ![r].pc = "responded", ![r].status = 400]
            /\ UNCHANGED sv
       ELSE /\ br' = [br EXCEPT ![r].pc = "serving"]
            /\ sv[r].pipeline_service
            /\ GetFreshArticles(r, categories, MIN_ARTICLES_PER_CATEGORY, TRUE)

\* briefing.py:74-117: get_fresh_articles has returned.  A refresh the
\* metadata asks for is handed to the background tasks, the metadata of each
\* article is computed, an empty list schedules a refresh of the requested
\* categories, and the response is built.  Nothing in it suspends.
BriefingRespond(r) ==
    /\ br[r].pc = "serving"
    /\ sv[r].pc = "returned"
    /\ LET articles == sv[r].articles
           article_responses ==
               [i \in 1..Len(articles) |->
                   LET article_metadata == get_article_metadata(articles[i], now)
                   IN  [url |-> articles[i].url,
                        category |-> articles[i].category,
                        freshness_score |-> article_metadata.freshness_score,
                        freshness_tier |-> article_metadata.freshness_tier,
                        relevance_score |-> article_metadata.relevance_score,
                        composite_score |-> article_metadata.composite_score]]
           refresh_task ==
               IF sv[r].refresh_triggered /\ sv[r].refresh_categories # <<>>
               THEN <<sv[r].refresh_categories>> ELSE <<>>
           empty_task == IF articles = <<>> THEN <<sv[r].categories>> ELSE <<>>
       IN  br' = [br EXCEPT ![r] =
                     [pc |-> "responded", status |-> 200,
                      total_articles |-> Len(article_responses),
                      refresh_triggered |-> sv[r].refresh_triggered,
                      articles |-> article_responses,
                      background_tasks |-> refresh_task \o empty_task]]

\* the route answers requests while the pipeline runs of other requests
\* store articles and the clock advances
BriefingNext ==
    \/ \E categories \in RequestedCategoryLists :
       \E MIN_ARTICLES_PER_CATEGORY \in 1..MaxMinArticles :
           /\ GenerateBriefing("A", categories, MIN_ARTICLES_PER_CATEGORY)
           /\ UNCHANGED <<storageVars, enabled, sm, sel, pl, fn>>
    \/ QueryCategory("A") /\ UNCHANGED <<storageVars, enabled, sm, sel, pl, br, fn>>
    \/ ExamineCategories("A") /\ UNCHANGED <<storageVars, enabled, sm, sel, pl, br, fn>>
    \/ BriefingRespond("A") /\ UNCHANGED <<storageVars, enabled, sm, sel, pl, sv, fn>>
    \/ \E a \in ProcessedArticles :
           StoreArticle(a) /\ UNCHANGED <<sm, sel, pl, sv, br, fn>>
    \/ Tick /\ UNCHANGED <<db, nextId, calls, st, enabled, sm, sel, pl, sv, br, fn>>

\* the table when a sports article was stored so long before the service
\* starts that it reaches the end of its freshness window at MaxTime
StoredEarlier ==
    Committed({}, [IdleCall EXCEPT !.added =
        <<NewArticle([url |-> "u2", category |-> "sports", title |-> "t1",
                      description |-> None, ai_summary |-> None],
                     MaxTime - get_freshness_window("sports"))>>], 1)

\* briefing.py:61-66: the route constructs its serving service with a
\* pipeline_service, on an empty table or on one with an article stored
\* earlier
InitBriefing ==
    /\ db \in {{}, StoredEarlier}
    /\ nextId = Cardinality(db) + 1
    /\ now = 0
    /\ calls = 0
    /\ enabled = [r \in Runs |-> AllEnabled]
    /\ st = [r \in Runs |-> IdleCall]
    /\ sm = [r \in Runs |-> IdleSumm]
    /\ sel = [r \in Runs |-> IdleSelect]
    /\ pl = [r \in Runs |-> IdlePipeline]
    /\ sv = [r \in Runs |-> IdleServe]
    /\ br = [r \in Runs |-> IdleBriefing]
    /\ fn = NoCall

SpecBriefing == InitBriefing /\ [][BriefingNext]_vars

(***************************************************************************)
(* Calls of the pure functions of relevance.py, ranking.py and             *)
(* freshness.py on inputs drawn from bounded sets.                         *)
(***************************************************************************)

\* longest article list handed to deduplicate_articles and rank_articles
MaxList == 3

\* the state of everything but the function under evaluation
RestIdle ==
    /\ db = {}
    /\ nextId = 1
    /\ now = 0
    /\ calls = 0
    /\ enabled = [r \in Runs |-> AllEnabled]
    /\ st = [r \in Runs |-> IdleCall]
    /\ sm = [r \in Runs |-> IdleSumm]
    /\ sel = [r \in Runs |-> IdleSelect]
    /\ pl = [r \in Runs |-> IdlePipeline]
    /\ sv = [r \in Runs |-> IdleServe]
    /\ br = [r \in Runs |-> IdleBriefing]

\* models.py:19-32: a NewsArticle object
Article(id, url, title, description, ai_summary, created_at) ==
    [id |-> id, category |-> "technology", title |-> title, url |-> url,
     description |-> description,
     summary |-> PyOr(ai_summary, description), ai_summary |-> ai_summary,
     created_at |-> created_at, updated_at |-> created_at, is_active |-> TRUE]

\* the articles the lists are made of; relevance 0.5, 0.769, 0.398, 0.949
\* and 0.945.  1 and 2 share a url, 2 and 3 a title, 1 and 4 have titles of
\* similarity 0.97, and 4 and 5 titles of similarity 0.81 and descriptions
\* of similarity 0.83
ArticlePool ==
    { Article(1, "u1", "t1", "", None, 0),
      Article(2, "u1", "t2", "d1", "s1", 0),
      Article(3, "u2", "t2", "d2", None, 0),
      Article(4, "u3", "t3", "d1", "s1", 0),
      Article(5, "u4", "t4", "d3", "s1", 0) }

\* the lists handed to deduplicate_articles; a list can hold an object twice
ArticleLists == SeqsUpTo(ArticlePool, MaxList)

InitDedup ==
    /\ RestIdle
    /\ \E articles \in ArticleLists :
           fn = [pc |-> "input", articles |-> articles,
                 deduplicated |-> <<>>, again |-> <<>>]

\* relevance.py:179-224: deduplicate_articles(articles)
DeduplicateOnce ==
    /\ fn.pc = "input"
    /\ fn' = [fn EXCEPT !.pc = "once",
                        !.deduplicated = deduplicate_articles(fn.articles)]

\* relevance.py:179-224: deduplicate_articles on the list it returned
DeduplicateAgain ==
    /\ fn.pc = "once"
    /\ fn' = [fn EXCEPT !.pc = "twice",
                        !.again = deduplicate_articles(fn.deduplicated)]

DedupNext ==
    \/ DeduplicateOnce /\ UNCHANGED <<storageVars, enabled, sm, sel, pl, sv, br>>
    \/ DeduplicateAgain /\ UNCHANGED <<storageVars, enabled, sm, sel, pl, sv, br>>

SpecDedup == InitDedup /\ [][DedupNext]_vars

\* the articles the lists handed to rank_articles are made of: 1 and 5
\* differ in id and url only, 2 and 4 are created later than the others
RankPool ==
    { Article(1, "u1", "t1", "", None, 0),
      Article(2, "u1", "t2", "d1", "s1", HoursPerTick),
      Article(3, "u2", "t2", "d2", None, 0),
      Article(4, "u3", "t3", "d1", "s1", HoursPerTick),
      Article(5, "u4", "t1", "", None, 0) }

RankLists == SeqsUpTo(RankPool, MaxList)

\* the times rank_articles is called at
RankTimes == { n * HoursPerTick : n \in 0..(MaxTime \div HoursPerTick) }

InitRank ==
    /\ RestIdle
    /\ \E articles \in RankLists : \E t \in RankTimes :
           fn = [pc |-> "input", articles |-> articles, t |-> t, ranked |-> <<>>]

\* ranking.py:91-127: rank_articles(articles) without a limit
RankArticles ==
    /\ fn.pc = "input"
    /\ fn' = [fn EXCEPT !.pc = "ranked",
                        !.ranked = rank_articles(fn.articles, 0, fn.t)]

RankNext ==
    \/ RankArticles /\ UNCHANGED <<storageVars, enabled, sm, sel, pl, sv, br>>

SpecRank == InitRank /\ [][RankNext]_vars

\* greatest age of an article handed to the freshness scorer, in hours
MaxAge == 25

\* the categories articles are scored in: a window of 6 hours, one of 12
\* hours, and a category without a window of its own
ScoredCategories == {"technology", "sports", "bogus"}

\* a freshness check that leaves out the end of the window
should_refresh_Strict(article_created_at, category, t) ==
    t - article_created_at > get_freshness_window(category)

\* freshness.py:128-144 at time t
should_refresh(article_created_at, category, t) ==
    t - article_created_at >= get_freshness_window(category)

\* two articles of a category, created up to MaxAge hours before the time
\* of the call or, on a clock running behind, after it
InitFresh ==
    /\ RestIdle
    /\ \E category \in ScoredCategories : \E t \in RankTimes :
       \E created \in ((t - MaxAge)..(t + HoursPerTick)) \X ((t - MaxAge)..(t + HoursPerTick)) :
           fn = [pc |-> "input", category |-> category, t |-> t,
                 article_created_at |-> created,
                 freshness_score |-> <<0, 0>>,
                 should_refresh |-> <<FALSE, FALSE>>]

\* freshness.py:57-91 and 128-144: both articles are scored and checked
ScoreArticles ==
    /\ fn.pc = "input"
    /\ fn' = [fn EXCEPT
           !.pc = "scored",
           !.freshness_score =
               [i \in 1..2 |-> calculate_freshness_score(fn.article_created_at[i],
                                                         fn.category, fn.t)],
           !.should_refresh =
               [i \in 1..2 |-> should_refresh(fn.article_created_at[i],
                                              fn.category, fn.t)]]

FreshNext ==
    \/ ScoreArticles /\ UNCHANGED <<storageVars, enabled, sm, sel, pl, sv, br>>

SpecFresh == InitFresh /\ [][FreshNext]_vars

\* greatest weight handed to the constructor of ArticleRanker, in tenths
MaxWeight == 5

\* ranking.py:20-25: three weights, in tenths
InitRanker ==
    /\ RestIdle
    /\ \E fw, rw, sw \in 0..MaxWeight :
           fn = [pc |-> "input",
                 args |-> [freshness_weight |-> fw, relevance_weight |-> rw,
                           selection_weight |-> sw],
                 weights |-> <<>>]

\* ranking.py:34-46: ArticleRanker.__init__.  A weight is kept as the
\* fraction <<numerator, denominator>>; weights that sum to 1.0 are left as
\* given, others are divided by their sum, and the division by a sum of 0
\* raises ZeroDivisionError
NewArticleRanker ==
    /\ fn.pc = "input"
    /\ LET total_weight == fn.args.freshness_weight + fn.args.relevance_weight
                              + fn.args.selection_weight
       IN  fn' = IF total_weight = 10
                 THEN [fn EXCEPT !.pc = "constructed",
                                 !.weights = <<<<fn.args.freshness_weight, 10>>,
                                               <<fn.args.relevance_weight, 10>>,
                                               <<fn.args.selection_weight, 10>>>>]
                 ELSE IF total_weight = 0
                 THEN [fn EXCEPT !.pc = "ZeroDivisionError"]
                 ELSE [fn EXCEPT !.pc = "constructed",
                                 !.weights = <<<<fn.args.freshness_weight, total_weight>>,
                                               <<fn.args.relevance_weight, total_weight>>,
                                               <<fn.args.selection_weight, total_weight>>>>]

RankerNext ==
    \/ NewArticleRanker /\ UNCHANGED <<storageVars, enabled, sm, sel, pl, sv, br>>

SpecRanker == InitRanker /\ [][RankerNext]_vars

\* greatest limit handed to get_top_articles and rank_by_category
MaxLimit == 3

\* ranking.py:159-180: get_top_articles(articles, limit) at time t
get_top_articles(articles, limit, t) == rank_articles(articles, limit, t)

\* the categories of the articles of a list
CategoriesOf(articles) == { articles[i].category : i \in 1..Len(articles) }

\* ranking.py:129-157: rank_by_category(articles, articles_per_category) at
\* time t, the dict as a function on the categories present
rank_by_category(articles, articles_per_category, t) ==
    [category \in CategoriesOf(articles) |->
        rank_articles(ArticlesOfCategory(articles, category),
                      articles_per_category, t)]

\* the articles of RankPool, the third and the fifth as sports articles
CategoryRankPool ==
    { IF article.id \in {3, 5} THEN [article EXCEPT !.category = "sports"]
      ELSE article : article \in RankPool }

InitTop ==
    /\ RestIdle
    /\ \E articles \in SeqsUpTo(CategoryRankPool, MaxList) :
       \E t \in RankTimes : \E limit \in 0..MaxLimit :
           fn = [pc |-> "input", articles |-> articles, t |-> t, limit |-> limit,
                 top |-> <<>>, ranked |-> <<>>, by_category |-> [c \in {} |-> <<>>]]

\* ranking.py:159-180: get_top_articles(articles, limit)
GetTopArticles ==
    /\ fn.pc = "input"
    /\ fn' = [fn EXCEPT !.pc = "top",
                        !.top = get_top_articles(fn.articles, fn.limit, fn.t)]

\* ranking.py:91-127: rank_articles(articles, limit=limit)
RankArticlesLimited ==
    /\ fn.pc = "input"
    /\ fn' = [fn EXCEPT !.pc = "limited",
                        !.ranked = rank_articles(fn.articles, fn.limit, fn.t)]

\* ranking.py:129-157: rank_by_category(articles, limit)
RankByCategory ==
    /\ fn.pc = "input"
    /\ fn' = [fn EXCEPT !.pc = "by_category",
                        !.by_category = rank_by_category(fn.articles, fn.limit, fn.t)]

TopNext ==
    \/ GetTopArticles /\ UNCHANGED <<storageVars, enabled, sm, sel, pl, sv, br>>
    \/ RankArticlesLimited /\ UNCHANGED <<storageVars, enabled, sm, sel, pl, sv, br>>
    \/ RankByCategory /\ UNCHANGED <<storageVars, enabled, sm, sel, pl, sv, br>>

SpecTop == InitTop /\ [][TopNext]_vars

\* serving.py:218-221: the reason of a low average, the average of the
\* scores written with two decimals (in hundredths)
LowFreshnessReason(articles, category, t) ==
    [kind |-> "low_freshness_score",
     value |-> (2 * SumScores(articles, category, t) + 100 * Cardinality(articles))
                   \div (200 * Cardinality(articles))]

\* a check that looks at the number of articles before their freshness
should_refresh_category_CountFirst(articles, category, min_articles, t) ==
    IF articles = {} THEN <<TRUE, [kind |-> "no_articles", value |-> 0]>>
    ELSE IF Cardinality(articles) < min_articles
    THEN <<TRUE, [kind |-> "insufficient_articles", value |-> Cardinality(articles)]>>
    ELSE IF LowFreshness(articles, category, t)
    THEN <<TRUE, LowFreshnessReason(articles, category, t)>>
    ELSE <<FALSE, [kind |-> "ok", value |-> 0]>>

\* serving.py:205-226: the answer of should_refresh_category at time t on
\* the articles its query returned, min_articles being
\* settings.MIN_ARTICLES_PER_CATEGORY.  A score is computed for every
\* article, so the no_freshness_data exit at line 215 is never taken.
should_refresh_category(articles, category, min_articles, t) ==
    IF articles = {} THEN <<TRUE, [kind |-> "no_articles", value |-> 0]>>
    ELSE IF LowFreshness(articles, category, t)
    THEN <<TRUE, LowFreshnessReason(articles, category, t)>>
    ELSE IF Cardinality(articles) < min_articles
    THEN <<TRUE, [kind |-> "insufficient_articles", value |-> Cardinality(articles)]>>
    ELSE <<FALSE, [kind |-> "ok", value |-> 0]>>

\* serving.py:193-226: a whole should_refresh_category(category) call on a
\* service whose settings.MIN_ARTICLES_PER_CATEGORY is min_articles
ShouldRefreshCategory(category, min_articles) ==
    LET articles == FreshRows(db, category, now)
        answer == should_refresh_category(articles, category, min_articles, now)
    IN  fn' = [pc |-> "checked", category |-> category,
               min_articles |-> min_articles,
               should_refresh |-> answer[1], reason |-> answer[2]]

\* the rows the tables of the refresh checks are made of: two technology
\* articles, one a tick younger than the other, and a sports article
RefreshRows ==
    { [NewArticle([url |-> "u1", category |-> "technology", title |-> "t1",
                   description |-> "d1", ai_summary |-> "s1"], 0)
          EXCEPT !.id = 1],
      [NewArticle([url |-> "u2", category |-> "technology", title |-> "t2",
                   description |-> "d2", ai_summary |-> None], HoursPerTick)
          EXCEPT !.id = 2],
      [NewArticle([url |-> "u3", category |-> "sports", title |-> "t4",
                   description |-> "d3", ai_summary |-> "s1"], 0)
          EXCEPT !.id = 3] }

\* a serving service, with or without a pipeline_service, on a table of
\* stored articles at a time at which all of them have been created
InitRefreshCheck ==
    /\ db \in SUBSET RefreshRows
    /\ nextId = 4
    /\ now \in RankTimes \ {0}
    /\ calls = 0
    /\ enabled = [r \in Runs |-> AllEnabled]
    /\ st = [r \in Runs |-> IdleCall]
    /\ sm = [r \in Runs |-> IdleSumm]
    /\ sel = [r \in Runs |-> IdleSelect]
    /\ pl = [r \in Runs |-> IdlePipeline]
    /\ \E pipeline_service \in BOOLEAN :
           sv = [r \in Runs |-> [IdleServe EXCEPT !.pipeline_service = pipeline_service]]
    /\ br = [r \in Runs |-> IdleBriefing]
    /\ fn = NoCall

\* get_fresh_articles([category]) and should_refresh_category(category) on
\* the same service, while the store and the clock stand still
RefreshCheckNext ==
    \/ \E category \in AVAILABLE_CATEGORIES :
       \E min_articles_per_category \in 1..MaxMinArticles :
       \E auto_refresh \in BOOLEAN :
           /\ GetFreshArticles("A", <<category>>, min_articles_per_category, auto_refresh)
           /\ UNCHANGED <<storageVars, enabled, sm, sel, pl, br, fn>>
    \/ QueryCategory("A") /\ UNCHANGED <<storageVars, enabled, sm, sel, pl, br, fn>>
    \/ ExamineCategories("A") /\ UNCHANGED <<storageVars, enabled, sm, sel, pl, br, fn>>
    \/ \E category \in AVAILABLE_CATEGORIES :
       \E min_articles \in 1..MaxMinArticles :
           /\ ShouldRefreshCategory(category, min_articles)
           /\ UNCHANGED <<storageVars, enabled, sm, sel, pl, sv, br>>

SpecRefreshCheck == InitRefreshCheck /\ [][RefreshCheckNext]_vars

\* the process calls of one service as time passes: articles are stored and
\* fetched again later
RefetchNext ==
    \/ \E n \in 0..MaxBatch :
           StorageProcess("A", n) /\ UNCHANGED <<sm, sel, pl, sv, br, fn>>
    \/ \E a \in ProcessedArticles : \E exc \in BOOLEAN :
           StorageUpsert("A", a, exc) /\ UNCHANGED <<sm, sel, pl, sv, br, fn>>
    \/ \E dbfail \in BOOLEAN :
           StorageCommit("A", dbfail) /\ UNCHANGED <<sm, sel, pl, sv, br, fn>>
    \/ Tick /\ UNCHANGED <<db, nextId, calls, st, enabled, sm, sel, pl, sv, br, fn>>

SpecRefetch == Init /\ [][RefetchNext]_vars

\* briefing.py:75-81 and 153-172: the first background task of the response
\* runs: fetch_and_process_articles_background constructs a pipeline service
\* and awaits process_categories on the categories handed over, every stage
\* enabled
BackgroundRefresh(r) ==
    /\ br[r].pc = "responded"
    /\ br[r].background_tasks # <<>>
    /\ PipelineStart(r, br[r].background_tasks[1], TRUE, TRUE, TRUE)

\* serving.py:37-63: the get_fresh_articles call of a later request r for
\* the categories of request first, made when the background refresh of
\* first has ended
FollowUp(r, first) ==
    /\ pl[first].pc \in {"returned", "failed"}
    /\ sv[r].pc = "idle"
    /\ GetFreshArticles(r, sv[first].categories,
                        sv[first].min_articles_per_category, TRUE)

\* a briefing request, the background refresh it schedules and the
\* get_fresh_articles call of the next request, while the clock stands still
RefreshNext ==
    \/ \E category \in AVAILABLE_CATEGORIES :
       \E MIN_ARTICLES_PER_CATEGORY \in 1..MaxMinArticles :
           /\ GenerateBriefing("A", <<category>>, MIN_ARTICLES_PER_CATEGORY)
           /\ UNCHANGED <<storageVars, enabled, sm, sel, pl, fn>>
    \/ \E r \in Runs :
           QueryCategory(r) /\ UNCHANGED <<storageVars, enabled, sm, sel, pl, br, fn>>
    \/ \E r \in Runs :
           ExamineCategories(r) /\ UNCHANGED <<storageVars, enabled, sm, sel, pl, br, fn>>
    \/ BriefingRespond("A") /\ UNCHANGED <<storageVars, enabled, sm, sel, pl, sv, fn>>
    \/ BackgroundRefresh("A") /\ UNCHANGED <<storageVars, sm, sv, br, fn>>
    \/ \E i \in 1..Len(sel["A"].task) :
       \E raw_articles \in RawLists[sel["A"].valid_categories[i]] :
           CategoryFetched("A", i, raw_articles)
               /\ UNCHANGED <<storageVars, enabled, sm, pl, sv, br, fn>>
    \/ \E i \in 1..Len(sel["A"].task) : \E response \in LLMResponses :
           CategorySelected("A", i, response)
               /\ UNCHANGED <<storageVars, enabled, sm, pl, sv, br, fn>>
    \/ SelectGathered("A") /\ UNCHANGED <<storageVars, enabled, sm, pl, sv, br, fn>>
    \/ PipelineSelected("A") /\ UNCHANGED <<storageVars, enabled, sv, br, fn>>
    \/ \E i \in 1..Len(sm["A"].task) :
           SummAcquire("A", i) /\ UNCHANGED <<storageVars, enabled, sel, pl, sv, br, fn>>
    \/ \E i \in 1..Len(sm["A"].task) : \E outcome \in SummarizeOutcomes :
           SummFinish("A", i, outcome) /\ UNCHANGED <<storageVars, enabled, sel, pl, sv, br, fn>>
    \/ SummGather("A") /\ UNCHANGED <<storageVars, enabled, sel, pl, sv, br, fn>>
    \/ PipelineSummarized("A") /\ UNCHANGED <<sel, sv, br, fn>>
    \/ \E exc \in BOOLEAN : PipelineUpsert("A", exc) /\ UNCHANGED <<sm, sel, pl, sv, br, fn>>
    \/ \E dbfail \in BOOLEAN : StorageCommit("A", dbfail) /\ UNCHANGED <<sm, sel, pl, sv, br, fn>>
    \/ PipelineStored("A") /\ UNCHANGED <<storageVars, enabled, sm, sel, sv, br, fn>>
    \/ FollowUp("B", "A") /\ UNCHANGED <<storageVars, enabled, sm, sel, pl, br, fn>>

\* the route's services on an empty table or on one with an article stored
\* earlier, at a time at which that article is fresh, ageing or stale
InitRefresh ==
    /\ db \in {{}, StoredBefore}
    /\ nextId = Cardinality(db) + 1
    /\ now \in RankTimes
    /\ calls = 0
    /\ enabled = [r \in Runs |-> AllEnabled]
    /\ st = [r \in Runs |-> IdleCall]
    /\ sm = [r \in Runs |-> IdleSumm]
    /\ sel = [r \in Runs |-> IdleSelect]
    /\ pl = [r \in Runs |-> IdlePipeline]
    /\ sv = [r \in Runs |-> IdleServe]
    /\ br = [r \in Runs |-> IdleBriefing]
    /\ fn = NoCall

SpecRefresh == InitRefresh /\ [][RefreshNext]_vars

\* pipeline.py:64-83 for invocations on one PipelineService: the processors
\* are attributes of the service (pipeline.py:39-41), so the flags one
\* invocation applies are the flags every invocation of the service reads;
\* enabled holds the same value for every run
PipelineStartShared(r, categories, enable_selection, enable_summarization, enable_storage) ==
    /\ pl[r].pc = "idle"
    /\ enabled' = [q \in Runs |-> [selection |-> enable_selection,
                                   summarization |-> enable_summarization,
                                   storage |-> enable_storage]]
    /\ SelectCategories(r, categories)
    /\ pl' = [pl EXCEPT ![r] = [IdlePipeline EXCEPT
                 !.pc = "selecting", !.categories = categories,
                 !.enable_selection = enable_selection,
                 !.enable_summarization = enable_summarization,
                 !.enable_storage = enable_storage]]

\* the answers of the news source and of the LLM in the runs on one
\* service: no article or two, a selection of the second article or an
\* unreachable LLM
SharedRawLists ==
    { <<>>,
      <<[url |-> "u1", category |-> "technology", title |-> "t1", description |-> "d1"],
        [url |-> "u2", category |-> "technology", title |-> "t2", description |-> None]>> }

SharedLLMResponses ==
    { [kind |-> "unreachable", indices |-> <<>>],
      [kind |-> "indices", indices |-> <<2>>] }

\* two process_categories invocations on one PipelineService without a
\* storage stage, each with its own selection and summarization flags
SharedNext ==
    \/ \E r \in Runs : \E enable_selection, enable_summarization \in BOOLEAN :
           /\ PipelineStartShared(r, <<"technology">>, enable_selection,
                                  enable_summarization, FALSE)
           /\ UNCHANGED <<storageVars, sm, sv, br, fn>>
    \/ \E r \in Runs : \E i \in 1..Len(sel[r].task) :
       \E raw_articles \in SharedRawLists :
           CategoryFetched(r, i, raw_articles)
               /\ UNCHANGED <<storageVars, enabled, sm, pl, sv, br, fn>>
    \/ \E r \in Runs : \E i \in 1..Len(sel[r].task) :
       \E response \in SharedLLMResponses :
           CategorySelected(r, i, response)
               /\ UNCHANGED <<storageVars, enabled, sm, pl, sv, br, fn>>
    \/ \E r \in Runs :
           SelectGathered(r) /\ UNCHANGED <<storageVars, enabled, sm, pl, sv, br, fn>>
    \/ \E r \in Runs :
           PipelineSelected(r) /\ UNCHANGED <<storageVars, enabled, sv, br, fn>>
    \/ \E r \in Runs : \E i \in 1..Len(sm[r].task) :
           SummAcquire(r, i) /\ UNCHANGED <<storageVars, enabled, sel, pl, sv, br, fn>>
    \/ \E r \in Runs : \E i \in 1..Len(sm[r].task) : \E outcome \in SummarizeOutcomes :
           SummFinish(r, i, outcome)
               /\ UNCHANGED <<storageVars, enabled, sel, pl, sv, br, fn>>
    \/ \E r \in Runs :
           SummGather(r) /\ UNCHANGED <<storageVars, enabled, sel, pl, sv, br, fn>>
    \/ \E r \in Runs :
           PipelineSummarized(r) /\ UNCHANGED <<sel, sv, br, fn>>

SpecShared == Init /\ [][SharedNext]_vars

\* C11: get_fresh_articles sets refresh_triggered exactly when auto_refresh
\* is true and at least one requested category was marked for refresh,
\* whether or not the service holds a pipeline_service, and then
\* refresh_categories lists the marked categories.
C11_RefreshTriggered ==
    \A r \in Runs :
        sv[r].pc = "returned" =>
            /\ sv[r].refresh_triggered =
                   (sv[r].auto_refresh /\ sv[r].needs_refresh # <<>>)
            /\ sv[r].refresh_triggered =>
                   sv[r].refresh_categories = sv[r].needs_refresh

\* C12: for every requested category c the list get_fresh_articles returns
\* holds exactly min(min_articles_per_category, n_c) articles of category c,
\* where n_c counts the articles of c that survive deduplication and the
\* relevance filter, and they are the highest-ranked of them; no other
\* category fills a short one and no unrequested category is returned.
C12_MinimumPerCategory ==
    \A r \in Runs :
        sv[r].pc = "returned" =>
            /\ \A i \in 1..Len(sv[r].articles) :
                   sv[r].articles[i].category \in Range(sv[r].categories)
            /\ \A c \in Range(sv[r].categories) :
                   ArticlesOfCategory(sv[r].articles, c) =
                       Take(ArticlesOfCategory(sv[r].ranked_articles, c),
                            sv[r].min_articles_per_category)

\* C13: whenever a briefing request ends with zero articles to serve, the
\* caller receives a non-error response with zero articles and
\* refresh_triggered = true.
C13_ZeroArticlesRefresh ==
    \A r \in Runs :
        (br[r].pc = "responded" /\ sv[r].pc = "returned" /\ sv[r].articles = <<>>) =>
            /\ br[r].status = 200
            /\ br[r].total_articles = 0
            /\ br[r].refresh_triggered

\* C14: deduplicate_articles is idempotent: applied to its own result it
\* returns that result.
C14_DedupIdempotent ==
    fn.pc = "twice" => fn.again = fn.deduplicated

\* C15: two articles of the input that share a URL never both survive
\* deduplicate_articles, and a survivor has the highest relevance score of
\* the articles of the input with its URL.
C15_SameUrlCollapses ==
    fn.pc \in {"once", "twice"} =>
        /\ \A i, j \in 1..Len(fn.deduplicated) :
               i < j => fn.deduplicated[i].url # fn.deduplicated[j].url
        /\ \A i \in 1..Len(fn.deduplicated) : \A j \in 1..Len(fn.articles) :
               fn.articles[j].url = fn.deduplicated[i].url =>
                   calculate_relevance_score(fn.deduplicated[i])
                       >= calculate_relevance_score(fn.articles[j])

\* number of occurrences of x in a list
Occurrences(list, x) == Cardinality({ i \in 1..Len(list) : list[i] = x })

\* C16: rank_articles without a limit returns a permutation of its input in
\* order of non-increasing composite score; articles of equal composite
\* score keep their input order; and an article with strictly higher
\* freshness and relevance than another stands before it.
C16_RankOrder ==
    fn.pc = "ranked" =>
        LET score(a) == calculate_composite_score(a, fn.t)
            fresh(a) == calculate_freshness_score(a.created_at, a.category, fn.t)
            among(list, x, y) == SelectSeq(list, LAMBDA a : a \in {x, y})
        IN  /\ Len(fn.ranked) = Len(fn.articles)
            /\ \A x \in RankPool :
                   Occurrences(fn.ranked, x) = Occurrences(fn.articles, x)
            /\ \A i, j \in 1..Len(fn.ranked) :
                   i < j => score(fn.ranked[i]) >= score(fn.ranked[j])
            /\ \A x, y \in RankPool :
                   score(x) = score(y) =>
                       among(fn.ranked, x, y) = among(fn.articles, x, y)
            /\ \A i, j \in 1..Len(fn.ranked) :
                   (/\ fresh(fn.ranked[i]) > fresh(fn.ranked[j])
                    /\ calculate_relevance_score(fn.ranked[i])
                           > calculate_relevance_score(fn.ranked[j])) => i < j

\* a ranked list in which an article moved in front of two different
\* articles of equal composite score
C16_Witness ==
    /\ fn.pc = "ranked"
    /\ Len(fn.articles) = 3
    /\ fn.ranked = <<fn.articles[3], fn.articles[1], fn.articles[2]>>
    /\ fn.articles[1] # fn.articles[2]
    /\ calculate_composite_score(fn.articles[1], fn.t)
           = calculate_composite_score(fn.articles[2], fn.t)
    /\ calculate_composite_score(fn.articles[3], fn.t)
           > calculate_composite_score(fn.articles[1], fn.t)

\* C17: calculate_freshness_score returns a value in [0,1] for every
\* creation time and category; a creation time later than now is treated as
\* zero age and scored 1.0.
C17_ScoreInUnitInterval ==
    fn.pc = "scored" =>
        \A i \in 1..2 :
            /\ fn.freshness_score[i] >= 0
            /\ fn.freshness_score[i] <= 10000
            /\ fn.article_created_at[i] >= fn.t => fn.freshness_score[i] = 10000

\* C18: for a fixed category the freshness score is non-increasing in age,
\* also across half the window; it is 0 for every age at or beyond the
\* window of the category; and should_refresh is true exactly for those
\* ages.
C18_FreshnessMonotone ==
    fn.pc = "scored" =>
        LET age(i) == fn.t - fn.article_created_at[i]
            freshness_window == get_freshness_window(fn.category)
        IN  /\ \A i, j \in 1..2 :
                   age(i) < age(j) => fn.freshness_score[i] >= fn.freshness_score[j]
            /\ \A i \in 1..2 :
                   /\ age(i) >= freshness_window => fn.freshness_score[i] = 0
                   /\ fn.should_refresh[i] = (age(i) >= freshness_window)

\* two scored articles, one younger than half the window and one between
\* half the window and its end, and a third case at the end of the window
C18_Witness ==
    /\ fn.pc = "scored"
    /\ LET age(i) == fn.t - fn.article_created_at[i]
           freshness_window == get_freshness_window(fn.category)
       IN  /\ age(1) >= 0
           /\ 2 * age(1) < freshness_window
           /\ 2 * age(2) > freshness_window
           /\ age(2) < freshness_window
           /\ fn.freshness_score[1] > fn.freshness_score[2]
           /\ fn.freshness_score[2] > 0
           /\ ~fn.should_refresh[2]

\* C19: constructing an ArticleRanker never fails, whatever the three
\* weights; afterwards the weights sum to 1.0 and, being each the given
\* weight divided by the same sum, keep their proportions.
C19_WeightsNormalized ==
    fn.pc # "input" =>
        /\ fn.pc = "constructed"
        /\ LET w == fn.weights
               given == <<fn.args.freshness_weight, fn.args.relevance_weight,
                          fn.args.selection_weight>>
           IN  /\ w[1][1] * w[2][2] * w[3][2] + w[2][1] * w[1][2] * w[3][2]
                      + w[3][1] * w[1][2] * w[2][2] = w[1][2] * w[2][2] * w[3][2]
               /\ \A i, j \in 1..3 :
                      w[i][1] * w[j][2] * given[j] = w[j][1] * w[i][2] * given[i]

\* C20: every article that get_fresh_articles returned has a strictly
\* positive freshness score when get_article_metadata is computed for it
\* afterwards, whatever its age inside the window at query time and
\* however much time passed between the store query and the scoring.
C20_ReturnedArticlesFresh ==
    \A r \in Runs :
        br[r].pc = "responded" =>
            \A i \in 1..Len(br[r].articles) : br[r].articles[i].freshness_score > 0

\* sub is a subsequence of list: its elements occur in list in this order
RECURSIVE IsSubsequence(_, _)
IsSubsequence(sub, list) ==
    IF sub = <<>> THEN TRUE
    ELSE IF list = <<>> THEN FALSE
    ELSE IF Head(sub) = Head(list) THEN IsSubsequence(Tail(sub), Tail(list))
    ELSE IsSubsequence(sub, Tail(list))

\* the ids of the articles of a list
IdsOf(list) == { list[i].id : i \in 1..Len(list) }

\* C21: deduplicate_articles returns a subsequence of its input (survivors
\* keep their relative order) that contains every article belonging to no
\* duplicate group of find_duplicates, as often as the input holds it, and
\* of each duplicate group exactly one article: a member of the group whose
\* relevance score no other member exceeds.
C21_DedupKeepsBest ==
    fn.pc \in {"once", "twice"} =>
        LET duplicates == find_duplicates(fn.articles)
            grouped == UNION { duplicates[g] : g \in 1..Len(duplicates) }
        IN  /\ IsSubsequence(fn.deduplicated, fn.articles)
            /\ \A i \in 1..Len(fn.articles) :
                   fn.articles[i].id \notin grouped =>
                       Occurrences(fn.deduplicated, fn.articles[i])
                           = Occurrences(fn.articles, fn.articles[i])
            /\ \A g \in 1..Len(duplicates) :
                   LET kept == duplicates[g] \cap IdsOf(fn.deduplicated)
                   IN  /\ Cardinality(kept) = 1
                       /\ \A id \in kept : \A other \in duplicates[g] :
                              calculate_relevance_score(ArticleMap(fn.articles, id))
                                  >= calculate_relevance_score(
                                         ArticleMap(fn.articles, other))

\* a list of three articles with a duplicate group and an article outside
\* every group has been deduplicated; the group lost its first member
C21_Witness ==
    /\ fn.pc = "once"
    /\ Len(fn.articles) = 3
    /\ Cardinality(IdsOf(fn.articles)) = 3
    /\ Len(find_duplicates(fn.articles)) = 1
    /\ Len(fn.deduplicated) = 2
    /\ fn.deduplicated[1] = fn.articles[2]
    /\ fn.deduplicated[2] = fn.articles[3]

\* C22: for every limit n >= 0, get_top_articles(articles, n) and
\* rank_articles(articles, limit=n) return exactly the first
\* min(n, |articles|) articles of the full ranking, and
\* rank_by_category(articles, n) returns for each category present its own
\* ranking capped at n articles; no result group is longer than n.
C22_LimitCaps ==
    LET full(articles) == SortByScore(articles, <<>>, fn.t)
        capped(articles) == SubSeq(full(articles), 1, Min(fn.limit, Len(articles)))
    IN  /\ fn.pc = "top" => fn.top = capped(fn.articles)
        /\ fn.pc = "limited" => fn.ranked = capped(fn.articles)
        /\ fn.pc = "by_category" =>
               /\ DOMAIN fn.by_category = CategoriesOf(fn.articles)
               /\ \A category \in DOMAIN fn.by_category :
                      /\ fn.by_category[category]
                             = capped(ArticlesOfCategory(fn.articles, category))
                      /\ Len(fn.by_category[category]) <= fn.limit

\* C23: in the metadata of get_fresh_articles, before_dedup is the number
\* of pooled articles before deduplication, after_dedup the number left
\* after deduplication and filtering, and final the length of the returned
\* list; so before_dedup >= after_dedup >= final, and before_dedup >
\* after_dedup whenever a duplicate or low-relevance article was removed.
C23_FilteringCounts ==
    \A r \in Runs :
        sv[r].pc = "returned" =>
            LET pooled == AllArticles(sv[r].categories, sv[r].category_articles)
                kept == filter_by_relevance(deduplicate_articles(pooled),
                                            MIN_RELEVANCE_SCORE)
                counts == sv[r].articles_after_filtering
            IN  /\ counts.before_dedup = Len(pooled)
                /\ counts.after_dedup = Len(kept)
                /\ counts.final = Len(sv[r].articles)
                /\ counts.before_dedup >= counts.after_dedup
                /\ counts.after_dedup >= counts.final
                /\ Len(kept) < Len(pooled) => counts.before_dedup > counts.after_dedup

\* the stage a process_categories run can go to next from each stage
StageSuccessors ==
    [idle |-> {"selecting"},
     selecting |-> {"summarizing", "returned"},
     summarizing |-> {"storing", "returned"},
     storing |-> {"returned", "failed"},
     returned |-> {},
     failed |-> {}]

\* C24: a process_categories run goes through its stages in the order
\* Selecting, Summarizing, Storing: no summarization call starts before the
\* fetch-and-select task of every category has finished, no store call
\* starts and no row is written before every summarization task of the run
\* has finished, a run with storage disabled starts no store call and
\* writes nothing, and a run that can take no further step has returned its
\* ProcessingResult or raised ProcessingError.
C24_StageOrder ==
    /\ [][\A r \in Runs :
            /\ pl'[r].pc # pl[r].pc => pl'[r].pc \in StageSuccessors[pl[r].pc]
            /\ (sm[r].pc = "idle" /\ sm'[r].pc # "idle") =>
                   /\ pl[r].pc = "selecting"
                   /\ sel[r].pc = "returned"
                   /\ \A i \in 1..Len(sel[r].task) :
                          sel[r].task[i] \in {"done", "raised"}
            /\ (st[r].pc = "idle" /\ st'[r].pc # "idle") =>
                   /\ pl[r].pc = "summarizing"
                   /\ pl[r].enable_storage
                   /\ sm[r].pc = "returned"
                   /\ \A i \in 1..Len(sm[r].task) : sm[r].task[i] = "done"
            /\ (pl[r].pc # "idle" /\ db' # db) =>
                   /\ pl[r].pc = "storing"
                   /\ pl[r].enable_storage]_vars
    /\ [](~ENABLED PipelineNext =>
              \A r \in Runs : pl[r].pc \in {"idle", "returned", "failed"})

\* a run with every stage enabled has selected, summarized and stored an
\* article and returned its result
C24_Witness ==
    /\ pl["A"].pc = "returned"
    /\ pl["A"].enable_storage
    /\ st["A"].pc = "returned"
    /\ pl["A"].result.total_count >= 1
    /\ \E row \in db : \E i \in 1..Len(pl["A"].processed) :
           row.url = pl["A"].processed[i].url

\* C25: should_refresh_category(c) and get_fresh_articles agree: on the
\* same store state should_refresh_category(c) returns true exactly when
\* get_fresh_articles([c]) with the same minimum marks c for refresh (puts
\* it on its needs_refresh list, the marking of C10); its
\* reason is no_articles when c has no fresh article, otherwise
\* low_freshness_score_<value> when the average is below the threshold,
\* otherwise insufficient_articles_<count> when the count is too small,
\* otherwise ok with false.
C25_RefreshCheckAgrees ==
    fn.pc = "checked" =>
        LET category == fn.category
            articles == InsideWindow(db, category, now)
            count == Cardinality(articles)
            low == SumScores(articles, category, now)
                       < AUTO_REFRESH_FRESHNESS_THRESHOLD * count
        IN  /\ \A r \in Runs :
                   (/\ sv[r].pc = "returned"
                    /\ sv[r].categories = <<category>>
                    /\ sv[r].min_articles_per_category = fn.min_articles) =>
                       (fn.should_refresh <=> category \in Range(sv[r].needs_refresh))
            /\ fn.should_refresh <=> fn.reason.kind # "ok"
            /\ fn.reason.kind =
                   IF count = 0 THEN "no_articles"
                   ELSE IF low THEN "low_freshness_score"
                   ELSE IF count < fn.min_articles THEN "insufficient_articles"
                   ELSE "ok"
            /\ fn.reason.kind = "insufficient_articles" => fn.reason.value = count

\* both calls have answered for a category whose one fresh article is below
\* the threshold and below the minimum of 2: the check names the low score
C25_Witness ==
    /\ fn.pc = "checked"
    /\ fn.min_articles = 2
    /\ Cardinality(InsideWindow(db, fn.category, now)) = 1
    /\ fn.reason.kind = "low_freshness_score"
    /\ sv["A"].pc = "returned"
    /\ sv["A"].categories = <<fn.category>>
    /\ sv["A"].min_articles_per_category = 2
    /\ sv["A"].needs_refresh = <<fn.category, fn.category>>

\* C26: an upsert of a URL that is already stored leaves the row's id,
\* creation timestamp, title, category and URL unchanged and changes only
\* summary, AI summary, description, update timestamp and active flag;
\* hence no step raises the freshness score of a stored article; and a row
\* changes only in the commit of a call that upserted its URL, no row is
\* ever removed.
C26_UpsertFrame ==
    [][\A row \in db :
          \E after \in db' :
              /\ after.id = row.id
              /\ after = [row EXCEPT !.summary = after.summary,
                                     !.ai_summary = after.ai_summary,
                                     !.description = after.description,
                                     !.updated_at = after.updated_at,
                                     !.is_active = after.is_active]
              /\ calculate_freshness_score(after.created_at, after.category, now')
                     <= calculate_freshness_score(row.created_at, row.category, now)
              /\ after # row =>
                     \E r \in Runs : /\ CommitReturns(r)
                                     /\ row.url \in Range(st'[r].saved_articles)]_vars

\* a stored article was fetched again at a later time: its row carries the
\* new update timestamp and its old creation timestamp
C26_Witness ==
    \E r \in Runs : \E row \in db :
        /\ st[r].pc = "returned"
        /\ row.url \in Range(st[r].saved_articles)
        /\ row.updated_at > row.created_at
        /\ calculate_freshness_score(row.created_at, row.category, now) < 10000

\* number of articles of a category in a list
CountOfCategory(articles, category) ==
    Cardinality({ i \in 1..Len(articles) : articles[i].category = category })

\* C27: refresh converges: if get_fresh_articles marks category c for
\* refresh and the process_categories run triggered for c completes without
\* error, having processed and saved at least min_articles_per_category
\* articles of c, a get_fresh_articles call made immediately afterwards
\* does not mark c for refresh again, also when the news source returned
\* URLs that were already stored.
C27_RefreshConverges ==
    (/\ sv["B"].pc = "returned"
     /\ pl["A"].pc = "returned"
     /\ st["A"].pc = "returned"
     /\ ~st["A"].raised
     /\ Len(st["A"].saved_articles) = Len(pl["A"].processed)) =>
        \A category \in Range(sv["A"].refresh_categories) :
            (/\ category \in Range(pl["A"].categories)
             /\ CountOfCategory(pl["A"].processed, category)
                    >= sv["A"].min_articles_per_category) =>
                category \notin Range(sv["B"].needs_refresh)

\* C28: stage toggles are per invocation: when two process_categories
\* invocations run concurrently on one PipelineService with different
\* flags, the selection of each invocation asks the LLM about a list longer
\* than top_count exactly if its own enable_selection is set, and its
\* summarization starts summarize tasks exactly if its own
\* enable_summarization is set, in every interleaving.
C28_TogglesPerInvocation ==
    [][\A r \in Runs :
          /\ \A i \in 1..Len(sel[r].task) :
                 (/\ pl[r].pc = "selecting"
                  /\ sel[r].task[i] = "fetching"
                  /\ sel'[r].task[i] # "fetching"
                  /\ Len(sel'[r].raw[i]) > sel[r].top_count) =>
                     (sel'[r].task[i] = "selecting" <=> pl[r].enable_selection)
          /\ (pl[r].pc = "selecting" /\ pl'[r].pc = "summarizing") =>
                 (sm'[r].pc = "running" <=> pl[r].enable_summarization)]_vars

\* C29: the list get_fresh_articles returns never holds the same stored
\* article (the same URL) twice, for every store state and every requested
\* category list, a list that names a category more than once included.
C29_NoArticleTwice ==
    \A r \in Runs :
        sv[r].pc = "returned" =>
            \A i, j \in 1..Len(sv[r].articles) :
                i < j => sv[r].articles[i].url # sv[r].articles[j].url

\* C30: the metadata refresh_categories, which the caller hands to
\* process_categories, names each category at most once, also when a
\* category is both below the freshness threshold and below the minimum
\* article count; so the refresh never has two fetches of one category
\* under way at the same time.
C30_RefreshCategoriesOnce ==
    /\ \A r \in Runs :
           sv[r].pc = "returned" =>
               \A i, j \in 1..Len(sv[r].refresh_categories) :
                   i < j => sv[r].refresh_categories[i] # sv[r].refresh_categories[j]
    /\ \A r \in Runs : \A i, j \in 1..Len(sel[r].task) :
           (i < j /\ sel[r].valid_categories[i] = sel[r].valid_categories[j]) =>
               ~(sel[r].task[i] = "fetching" /\ sel[r].task[j] = "fetching")

====
